---- MODULE Spec2Model ----
(***************************************************************************)
(* A model of the ClassicalConcertTracker scraping core (src/scraper.py,   *)
(* src/models.py, src/routes.py): the relational store, the upsert         *)
(* BaseScraper._save_concert_with_city, the per-venue strategies and the   *)
(* entry points scrape_venue and scrape_all_venues.                        *)
(***************************************************************************)
EXTENDS Integers, Sequences, FiniteSets, Bags, TLC

VARIABLES
    venue,              \* Venue table: id -> [url, scraper_type, last_scraped]
    concerts,           \* Concert table: row id (index) -> row
    performers,         \* Performer table: row id (index) -> [name, role]
    pieces,             \* Piece table: row id (index) -> [title, composer]
    concert_performer,  \* association rows <<concert_id, performer_id>>, a bag
    concert_piece,      \* association rows <<concert_id, piece_id>>, a bag
    now,                \* the wall clock read by datetime.now()/utcnow()
    last_save,          \* what the latest _save_concert_with_city call did
    last_scrape,        \* what the latest strategy run / scrape_venue call did
    batch,              \* scrape_all_venues: its loop position and results
    last_parse,         \* what the latest call of a date normalizer returned
    scraping_progress,  \* routes.scraping_progress: venue id -> progress entry
    threads,            \* the background scrape threads, in order of creation
    last_read           \* what the latest progress read returned

vars == <<venue, concerts, performers, pieces, concert_performer, concert_piece,
          now, last_save, last_scrape, batch, last_parse,
          scraping_progress, threads, last_read>>

web == <<scraping_progress, threads, last_read>>

store == <<concerts, performers, pieces, concert_performer, concert_piece>>

-----------------------------------------------------------------------------
(* Bounds of the model.                                                    *)

\* most tuples (performers and pieces together) passed to one save
MaxList == 2
\* the clock stops advancing here
MaxNow == 3
\* no table grows beyond this many rows
MaxRows == 4

-----------------------------------------------------------------------------
(* Strings whose length matters are kept run-length encoded: a sequence of *)
(* runs [ch, n] standing for n copies of ch, adjacent runs differing in ch *)
(* and every n > 0, so that equal strings have equal encodings.            *)

RECURSIVE StrLen(_)
StrLen(s) == IF s = <<>> THEN 0 ELSE Head(s).n + StrLen(Tail(s))

\* Python s[:k]
RECURSIVE StrTake(_, _)
StrTake(s, k) ==
    IF s = <<>> \/ k <= 0 THEN <<>>
    ELSE IF Head(s).n <= k
         THEN <<Head(s)>> \o StrTake(Tail(s), k - Head(s).n)
         ELSE <<[ch |-> Head(s).ch, n |-> k]>>

\* String(255) of Piece.title and Piece.composer
PieceLimit == 255

TruncateNot(s) == s

\* x[:255] if len(x) > 255 else x
Truncate(s) == IF StrLen(s) > PieceLimit THEN StrTake(s, PieceLimit) ELSE s

-----------------------------------------------------------------------------
(* The store (src/models.py).  A table is the sequence of its rows, a row  *)
(* id is its index.  The created_at/updated_at columns are left out.       *)

\* Python None for Concert.city
NoCity == "None"

\* A datetime is <<"parsed", d>> for the instant d a page states, <<"now", t>>
\* for a reading t of the clock; NoDate is Python None.
NoDate == <<"none", 0>>
Parsed(d) == <<"parsed", d>>
At(t) == <<"now", t>>

DB == [concerts |-> concerts, performers |-> performers, pieces |-> pieces,
       concert_performer |-> concert_performer, concert_piece |-> concert_piece]

EmptyDB == [concerts |-> <<>>, performers |-> <<>>, pieces |-> <<>>,
            concert_performer |-> EmptyBag, concert_piece |-> EmptyBag]

MinOf(S) == CHOOSE x \in S : \A y \in S : x <= y

\* Query.first(): the matching row of lowest id, 0 for None
First(S) == IF S = {} THEN 0 ELSE MinOf(S)

\* Concert.query.filter_by(title=, date=, venue_id=).first()
FindConcert(db, title, date, venue_id) ==
    First({i \in DOMAIN db.concerts :
              /\ db.concerts[i].title = title
              /\ db.concerts[i].date = date
              /\ db.concerts[i].venue_id = venue_id})

FindPerformerNew(db, name, role) == 0

\* Performer.query.filter_by(name=, role=).first()
FindPerformer(db, name, role) ==
    First({i \in DOMAIN db.performers :
              db.performers[i].name = name /\ db.performers[i].role = role})

\* Piece.query.filter_by(title=, composer=).first()
FindPiece(db, title, composer) ==
    First({i \in DOMAIN db.pieces :
              db.pieces[i].title = title /\ db.pieces[i].composer = composer})

\* the association rows of one concert: concert.performers, concert.pieces
RowsOf(assoc, cid) == {p \in DOMAIN assoc : p[1] = cid}
Linked(assoc, cid) == {p[2] : p \in RowsOf(assoc, cid)}

ClearKeep(assoc, cid) == assoc

\* concert.performers = [] / concert.pieces = []
Clear(assoc, cid) == [p \in DOMAIN assoc \ RowsOf(assoc, cid) |-> assoc[p]]

LinkAlways(assoc, cid, id) == assoc (+) SetToBag({<<cid, id>>})

\* if x not in concert.xs: concert.xs.append(x)
Link(assoc, cid, id) ==
    IF BagIn(<<cid, id>>, assoc) THEN assoc ELSE assoc (+) SetToBag({<<cid, id>>})

-----------------------------------------------------------------------------
(* BaseScraper._save_concert_with_city, a call c being the record          *)
(* [venue_id, title, date, external_url, performers, pieces, city].        *)

UpsertConcertPurge(db, c) ==
    LET i == FindConcert(db, c.title, c.date, c.venue_id) IN
    IF i # 0
    THEN [db EXCEPT !.performers = <<>>, !.pieces = <<>>,
                    !.concert_performer = EmptyBag, !.concert_piece = EmptyBag]
    ELSE [db EXCEPT
            !.concerts = Append(@, [title |-> c.title, date |-> c.date,
                                    venue_id |-> c.venue_id,
                                    external_url |-> c.external_url,
                                    city |-> c.city])]

\* lines 70-105: look the concert up; update and clear it, or create it
UpsertConcert(db, c) ==
    LET i == FindConcert(db, c.title, c.date, c.venue_id) IN
    IF i # 0
    THEN [db EXCEPT
            !.concerts[i].title = c.title,
            !.concerts[i].date = c.date,
            !.concerts[i].city = IF c.city # NoCity THEN c.city ELSE @,
            !.concert_performer = Clear(@, i),
            !.concert_piece = Clear(@, i)]
    ELSE [db EXCEPT
            !.concerts = Append(@, [title |-> c.title, date |-> c.date,
                                    venue_id |-> c.venue_id,
                                    external_url |-> c.external_url,
                                    city |-> c.city])]

\* the id of the row bound to `concert` by UpsertConcert(db, c)
ConcertId(db, c) ==
    LET i == FindConcert(db, c.title, c.date, c.venue_id) IN
    IF i # 0 THEN i ELSE Len(db.concerts) + 1

\* lines 108-124, one iteration
AddPerformer(db, cid, pd) ==
    LET hit == FindPerformer(db, pd.name, pd.role)
        id  == IF hit # 0 THEN hit ELSE Len(db.performers) + 1
        d1  == IF hit # 0 THEN db
               ELSE [db EXCEPT !.performers =
                                  Append(@, [name |-> pd.name, role |-> pd.role])]
    IN [d1 EXCEPT !.concert_performer = Link(@, cid, id)]

\* lines 127-147, one iteration
AddPiece(db, cid, pd) ==
    LET title    == Truncate(pd.title)
        composer == Truncate(pd.composer)
        hit == FindPiece(db, title, composer)
        id  == IF hit # 0 THEN hit ELSE Len(db.pieces) + 1
        d1  == IF hit # 0 THEN db
               ELSE [db EXCEPT !.pieces =
                                  Append(@, [title |-> title, composer |-> composer])]
    IN [d1 EXCEPT !.concert_piece = Link(@, cid, id)]

RECURSIVE AddPerformers(_, _, _)
AddPerformers(db, cid, pds) ==
    IF pds = <<>> THEN db
    ELSE AddPerformers(AddPerformer(db, cid, Head(pds)), cid, Tail(pds))

RECURSIVE AddPieces(_, _, _)
AddPieces(db, cid, pds) ==
    IF pds = <<>> THEN db
    ELSE AddPieces(AddPiece(db, cid, Head(pds)), cid, Tail(pds))

\* The steps of one call: the concert lookup and upsert, one per performer,
\* one per piece, the commit.
SaveSteps(c) == Len(c.performers) + Len(c.pieces) + 2

MinNat(a, b) == IF a <= b THEN a ELSE b
MaxNat(a, b) == IF a >= b THEN a ELSE b

\* the session's view of the store after the first k steps of the call
Working(db, c, k) ==
    LET cid == ConcertId(db, c)
        np  == MinNat(MaxNat(k - 1, 0), Len(c.performers))
        nq  == MinNat(MaxNat(k - 1 - Len(c.performers), 0), Len(c.pieces))
        d1  == IF k >= 1 THEN UpsertConcert(db, c) ELSE db
        d2  == AddPerformers(d1, cid, SubSeq(c.performers, 1, np))
    IN AddPieces(d2, cid, SubSeq(c.pieces, 1, nq))

\* The step at which the call raises, 0 when it does not: the step f chosen
\* by the environment (a store or driver error), or the first flush of a new
\* Concert whose date is None (Concert.date is nullable=False), which the
\* first query after db.session.add, or the commit, runs.
RaisedAt(db, c, f) ==
    IF c.date = NoDate /\ (f = 0 \/ f > 2) THEN 2 ELSE f

RollbackNot(committed, working) == working

\* db.session.rollback()
Rollback(committed, working) == committed

\* the committed store after the call has returned
Saved(db, c, f) ==
    LET r == RaisedAt(db, c, f) IN
    IF r = 0 THEN Working(db, c, SaveSteps(c))
    ELSE Rollback(db, Working(db, c, r - 1))

\* the call's return value
SaveResult(db, c, f) == RaisedAt(db, c, f) = 0

-----------------------------------------------------------------------------
(* The venues and the inputs the saves are drawn from.                     *)

\* A venue URL is kept as the set of the substrings get_scraper and the
\* strategies test it for.
VenueTable ==
    1 :> [name |-> "site-a", url |-> {}, scraper_type |-> "generic",
          last_scraped |-> NoDate]
 @@ 2 :> [name |-> "fn", url |-> {"filharmonia.pl"},
          scraper_type |-> "filharmonia_narodowa", last_scraped |-> NoDate]

\* self.city of the strategies that save with a city, None for the others
Cities == 1 :> NoCity @@ 2 :> "Warsaw"

Titles == {"Gala"}
Dates == {Parsed(1)}

PerformerData ==
    {[name |-> "Doe", role |-> "conductor"], [name |-> "Doe", role |-> "piano"]}

Str(ch, n) == <<[ch |-> ch, n |-> n]>>

\* Two pieces whose titles (256 and 258 characters) and composers (300 and
\* 256 characters) are over-long and agree on their first 255 characters.
PieceData ==
    {[title |-> Str("x", PieceLimit) \o Str("y", 1), composer |-> Str("c", 300)],
     [title |-> Str("x", PieceLimit) \o Str("z", 3),
      composer |-> Str("c", PieceLimit) \o Str("d", 1)]}

SeqsUpTo(S, n) == UNION {[1..k -> S] : k \in 0..n}

SaveCalls ==
    UNION {{[venue_id |-> v, title |-> t, date |-> d, external_url |-> "/" \o t,
             performers |-> ps, pieces |-> qs, city |-> Cities[v]] :
               v \in DOMAIN VenueTable, t \in Titles, d \in Dates,
               qs \in SeqsUpTo(PieceData, MaxList - Len(ps))} :
           ps \in SeqsUpTo(PerformerData, MaxList)}

Range(f) == {f[i] : i \in DOMAIN f}

NoSave == [called |-> FALSE]
NoScrape == [called |-> FALSE]
NoBatch == [pc |-> "idle"]
NoParse == [called |-> FALSE]
NoRead == [called |-> FALSE]

InitStore ==
    /\ venue = VenueTable
    /\ concerts = <<>>
    /\ performers = <<>>
    /\ pieces = <<>>
    /\ concert_performer = EmptyBag
    /\ concert_piece = EmptyBag
    /\ now = 1

Init ==
    /\ InitStore
    /\ last_save = NoSave
    /\ last_scrape = NoScrape
    /\ batch = NoBatch
    /\ last_parse = NoParse
    /\ scraping_progress = <<>>
    /\ threads = <<>>
    /\ last_read = NoRead

\* What a call leaves behind for the properties to read: its result, and for
\* a call that returned True the row it wrote and the tuples it was given.
SaveRecord(db, c, f) ==
    LET ok == SaveResult(db, c, f) IN
    [called |-> TRUE,
     ok |-> ok,
     partial |-> RaisedAt(db, c, f) >= 2,
     matched |-> ok /\ FindConcert(db, c.title, c.date, c.venue_id) # 0,
     concert_id |-> IF ok THEN ConcertId(db, c) ELSE 0,
     performers |-> IF ok THEN Range(c.performers) ELSE {},
     pieces |-> IF ok THEN {[title |-> Truncate(q.title),
                             composer |-> Truncate(q.composer)] :
                                q \in Range(c.pieces)}
                ELSE {},
     repeats |-> ok /\ (\/ Cardinality(Range(c.performers)) < Len(c.performers)
                        \/ Cardinality(Range(c.pieces)) < Len(c.pieces)),
     collide |-> ok /\ \E q1, q2 \in Range(c.pieces) :
                          /\ q1 # q2
                          /\ Truncate(q1.title) = Truncate(q2.title)
                          /\ Truncate(q1.composer) = Truncate(q2.composer)]

\* One call of _save_concert_with_city that raises at step f (0: it does not
\* raise).
SaveCall(c, f) ==
    LET db == DB
        r  == RaisedAt(db, c, f)
        w  == Working(db, c, IF r = 0 THEN SaveSteps(c) ELSE r - 1)
        d1 == IF r = 0 THEN w ELSE Rollback(db, w)
    IN /\ Len(w.concerts) <= MaxRows
       /\ Len(w.performers) <= MaxRows
       /\ Len(w.pieces) <= MaxRows
       /\ concerts' = d1.concerts
       /\ performers' = d1.performers
       /\ pieces' = d1.pieces
       /\ concert_performer' = d1.concert_performer
       /\ concert_piece' = d1.concert_piece
       /\ last_save' = SaveRecord(db, c, f)

save_concert ==
    /\ \E c \in SaveCalls : \E f \in 0..SaveSteps(c) : SaveCall(c, f)
    /\ UNCHANGED <<venue, now, last_scrape, batch, last_parse, web>>

Next == save_concert

Spec == Init /\ [][Next]_vars

-----------------------------------------------------------------------------
(* The strategies.  A page is what the selectors of a strategy find in the *)
(* document: its candidate items in document order, each                   *)
(* [title, date, link, performers, pieces], title "" for an item without a *)
(* usable title, date [kind |-> "parsed" | "dm" | "none", d |-> ...] for a *)
(* full date, a day.month fragment without year, or no parseable date.     *)

\* the clock counts days, YearLen of them to the year
YearLen == 2
YearOf(t) == (t - 1) \div YearLen
DayOf(t) == ((t - 1) % YearLen) + 1

\* get_scraper reading the configured tag before the URL
get_scraperTagFirst(v) ==
    CASE v.scraper_type = "generic" -> "GenericScraper"
      [] v.scraper_type = "classical" -> "ClassicalMusicScraper"
      [] v.scraper_type = "filharmonia_narodowa" -> "FilharmoniaNarodowaScraper"
      [] v.scraper_type = "nfm_wroclaw" -> "NFMWroclawScraper"
      [] v.scraper_type = "nospr_katowice" -> "NOSPRKatowiceScraper"
      [] v.scraper_type = "cracow_philharmonic" -> "CracowPhilharmonicScraper"
      [] v.scraper_type = "filharmonia_baltycka" -> "FilharmoniaBaltyckaScraper"
      [] "filharmonia.pl" \in v.url -> "FilharmoniaNarodowaScraper"
      [] "nfm.wroclaw.pl" \in v.url -> "NFMWroclawScraper"
      [] "nospr.org.pl" \in v.url -> "NOSPRKatowiceScraper"
      [] "filharmoniakrakow.pl" \in v.url -> "CracowPhilharmonicScraper"
      [] "filharmonia.gda.pl" \in v.url -> "FilharmoniaBaltyckaScraper"
      [] OTHER -> "GenericScraper"

\* get_scraper: the strategy class chosen for a venue row, v.url being the
\* set of the domains that occur in venue.url.lower()
get_scraper(v) ==
    IF "filharmonia.pl" \in v.url THEN "FilharmoniaNarodowaScraper"
    ELSE IF "nfm.wroclaw.pl" \in v.url THEN "NFMWroclawScraper"
    ELSE IF "nospr.org.pl" \in v.url THEN "NOSPRKatowiceScraper"
    ELSE IF "filharmoniakrakow.pl" \in v.url THEN "CracowPhilharmonicScraper"
    ELSE IF "filharmonia.gda.pl" \in v.url THEN "FilharmoniaBaltyckaScraper"
    ELSE CASE v.scraper_type = "generic" -> "GenericScraper"
           [] v.scraper_type = "classical" -> "ClassicalMusicScraper"
           [] v.scraper_type = "filharmonia_narodowa" -> "FilharmoniaNarodowaScraper"
           [] v.scraper_type = "nfm_wroclaw" -> "NFMWroclawScraper"
           [] v.scraper_type = "nospr_katowice" -> "NOSPRKatowiceScraper"
           [] v.scraper_type = "cracow_philharmonic" -> "CracowPhilharmonicScraper"
           [] v.scraper_type = "filharmonia_baltycka" -> "FilharmoniaBaltyckaScraper"
           [] OTHER -> "GenericScraper"

\* ClassicalMusicScraper inherits scrape from GenericScraper
IsGeneric(k) == k \in {"GenericScraper", "ClassicalMusicScraper"}

\* the strategies that fetch a detail page per item
CountsOnlySuccess(k) == k \in {"CracowPhilharmonicScraper", "FilharmoniaBaltyckaScraper"}

\* self.city of a strategy
CityOf(k) ==
    CASE k = "FilharmoniaNarodowaScraper" -> "Warsaw"
      [] k = "NOSPRKatowiceScraper" -> "Katowice"
      [] k = "NFMWroclawScraper" -> "Wroclaw"
      [] k = "CracowPhilharmonicScraper" -> "Krakow"
      [] k = "FilharmoniaBaltyckaScraper" -> "Gdansk"
      [] OTHER -> NoCity

\* _parse_filharmonia_date: day.month of the current year at midnight, the
\* next year if that is before now; a full date through dateutil; else None
parse_filharmonia_date(date, t) ==
    CASE date.kind = "dm" ->
            Parsed((IF date.d <= DayOf(t) THEN YearOf(t) + 1 ELSE YearOf(t)) * YearLen
                   + date.d)
      [] date.kind = "parsed" -> Parsed(date.d)
      [] OTHER -> NoDate

\* _parse_nfm_date: only DD.MM splits in two; the next year if the day has
\* passed
parse_nfm_date(date, t) ==
    CASE date.kind = "dm" ->
            Parsed((IF date.d < DayOf(t) THEN YearOf(t) + 1 ELSE YearOf(t)) * YearLen
                   + date.d)
      [] OTHER -> NoDate

\* _parse_nospr_date: strptime '%Y-%m-%d'
parse_nospr_date(date, t) ==
    IF date.kind = "parsed" THEN Parsed(date.d) ELSE NoDate

\* GenericScraper.scrape lines 334-352: now unless a format parses
parse_generic_date(date, t) ==
    IF date.kind = "parsed" THEN Parsed(date.d) ELSE At(t)

\* the date regexes of the two detail-page strategies: a full date or None
parse_detail_date(date, t) ==
    IF date.kind = "parsed" THEN Parsed(date.d) ELSE NoDate

DateOf(k, date, t) ==
    CASE IsGeneric(k) -> parse_generic_date(date, t)
      [] k = "FilharmoniaNarodowaScraper" -> parse_filharmonia_date(date, t)
      [] k = "NFMWroclawScraper" -> parse_nfm_date(date, t)
      [] k = "NOSPRKatowiceScraper" -> parse_nospr_date(date, t)
      [] OTHER -> parse_detail_date(date, t)

TBAPerformer == <<[name |-> "TBA", role |-> "performer"]>>
TBAPiece == <<[composer |-> Str("T", 3), title |-> Str("T", 3)]>>

\* Does the strategy get as far as a save for this item?  e is the run's
\* environment, i the item's position.
Reaches(k, item, i, e, t) ==
    CASE IsGeneric(k) -> item.title # ""
      [] k \in {"FilharmoniaNarodowaScraper", "NOSPRKatowiceScraper", "NFMWroclawScraper"} ->
            item.title # "" /\ DateOf(k, item.date, t) # NoDate
      [] OTHER -> i \in e.detail_ok

\* Does the strategy fetch a detail page for this item?
FetchesDetail(k, item, t) ==
    CASE IsGeneric(k) -> FALSE
      [] k \in {"FilharmoniaNarodowaScraper", "NFMWroclawScraper"} ->
            item.title # "" /\ DateOf(k, item.date, t) # NoDate /\ item.link
      [] k = "NOSPRKatowiceScraper" ->
            item.title # "" /\ DateOf(k, item.date, t) # NoDate
      [] OTHER -> TRUE

\* the call the strategy makes for an item it saves
CallOf(k, v, item, i, e, t) ==
    LET date == DateOf(k, item.date, t)
        detailed == FetchesDetail(k, item, t) /\ i \in e.detail_ok
        ps == IF IsGeneric(k)
              THEN (IF item.performers = <<>> THEN TBAPerformer ELSE item.performers)
              ELSE IF detailed THEN item.performers ELSE <<>>
        qs == IF IsGeneric(k)
              THEN (IF item.pieces = <<>> THEN TBAPiece ELSE item.pieces)
              ELSE IF detailed THEN item.pieces ELSE <<>>
    IN [venue_id |-> v, title |-> item.title, date |-> date,
        external_url |-> IF item.link THEN "/" \o item.title ELSE "#",
        performers |-> ps, pieces |-> qs, city |-> CityOf(k)]

\* concerts_saved += 1 under `if success:` (Cracow, Baltycka); the other
\* strategies run concert_count += 1 after the save whatever it returned
Count(k, n, success) ==
    IF CountsOnlySuccess(k) THEN (IF success THEN n + 1 ELSE n) ELSE n + 1

\* One pass of a strategy's loop over its items, from item i on.  acc is
\* [db, count, saved, fetches]: the store, the strategy's counter, the saves
\* that returned True, the HTTP fetches issued.
RECURSIVE Loop(_, _, _, _, _, _, _)
Loop(k, v, items, i, e, t, acc) ==
    IF i > Len(items) THEN acc
    ELSE
      LET item == items[i]
          a1 == [acc EXCEPT !.fetches = IF FetchesDetail(k, item, t) THEN @ + 1 ELSE @]
      IN IF ~Reaches(k, item, i, e, t) THEN Loop(k, v, items, i + 1, e, t, a1)
         ELSE
           LET c  == CallOf(k, v, item, i, e, t)
               f  == IF i \in e.save_raises THEN SaveSteps(c) ELSE 0
               ok == SaveResult(a1.db, c, f)
           IN Loop(k, v, items, i + 1, e, t,
                   [a1 EXCEPT !.db = Saved(a1.db, c, f),
                              !.count = Count(k, @, ok),
                              !.saved = IF ok THEN @ + 1 ELSE @])

\* the per-run caps: concert_elements[:15], max_concerts = 5, concert_links[:10]
CapOf(k) ==
    CASE IsGeneric(k) -> 15
      [] CountsOnlySuccess(k) -> 10
      [] OTHER -> 5

Capped(k, items) == SubSeq(items, 1, MinNat(Len(items), CapOf(k)))

\* The items a strategy works on.  NOSPR adds the rows of the further month
\* pages to those of the base page, each page only if its fetch succeeded;
\* Baltycka looks on the category pages if the base page has no item; the
\* others have the base page only.
ItemsOf(k, page, e) ==
    CASE k = "NOSPRKatowiceScraper" ->
            (IF e.base_ok THEN page.items ELSE <<>>)
            \o (IF e.more_ok THEN page.more ELSE <<>>)
      [] k = "FilharmoniaBaltyckaScraper" ->
            IF page.items # <<>> THEN page.items
            ELSE IF e.more_ok THEN page.more ELSE <<>>
      [] OTHER -> page.items

\* the fetches before the loop: the base page, plus trafilatura's own
\* download (generic), the three further months (NOSPR), the category pages
\* when the base page has no item (Baltycka)
ListFetches(k, page) ==
    CASE IsGeneric(k) -> 2
      [] k = "NOSPRKatowiceScraper" -> 4
      [] k = "FilharmoniaBaltyckaScraper" -> IF page.items = <<>> THEN 2 ELSE 1
      [] OTHER -> 1

\* `if not html: return False` after the base fetch; NOSPR has `continue` in
\* its loop over the months instead
BaseFailStops(k) == k # "NOSPRKatowiceScraper"

\* Does the strategy set last_scraped when its counter is n?
Touches(k, n) ==
    IF k \in {"NOSPRKatowiceScraper", "NFMWroclawScraper"} THEN n > 0 ELSE TRUE

\* scraper.scrape() of strategy k on venue v at clock t with environment e:
\* [db, ret, raised, fetches, saved, last_scraped]
Scrape(k, v, db, page, e, t, ls) ==
    IF ~e.base_ok /\ BaseFailStops(k)
    THEN [db |-> db, ret |-> FALSE, raised |-> FALSE, fetches |-> 1, saved |-> 0,
          last_scraped |-> ls]
    ELSE
      LET a0 == [db |-> db, count |-> 0, saved |-> 0, fetches |-> ListFetches(k, page)]
          a1 == Loop(k, v, Capped(k, ItemsOf(k, page, e)), 1, e, t, a0)
          \* the generic backup pass over the readable text
          a2 == IF IsGeneric(k) /\ a1.count = 0 /\ e.more_ok
                THEN Loop(k, v, page.more, 1, e, t, a1)
                ELSE a1
          touch == Touches(k, a2.count)
      IN IF touch /\ ~e.commit_ok
         \* the commit of last_scraped raises: it escapes GenericScraper.scrape,
         \* the other strategies catch it and return False
         THEN [db |-> a2.db, ret |-> FALSE, raised |-> IsGeneric(k),
               fetches |-> a2.fetches, saved |-> a2.saved, last_scraped |-> ls]
         ELSE [db |-> a2.db, ret |-> a2.count > 0, raised |-> FALSE,
               fetches |-> a2.fetches, saved |-> a2.saved,
               last_scraped |-> IF touch THEN At(t) ELSE ls]

-----------------------------------------------------------------------------
(* The venues and their documents.  A venue's url is the set of the domain *)
(* markers it contains; its document does not change between runs.         *)

VenueRow(name, url, tag) ==
    [name |-> name, url |-> url, scraper_type |-> tag, last_scraped |-> NoDate]

GenericRow == VenueRow("site-a", {}, "generic")

VenueRows ==
    {GenericRow,
     VenueRow("site-b", {}, "classical"),
     VenueRow("fn", {"filharmonia.pl"}, "generic"),
     VenueRow("nospr", {"nospr.org.pl"}, "nospr_katowice"),
     VenueRow("nfm", {}, "nfm_wroclaw"),
     VenueRow("krakow", {"filharmoniakrakow.pl"}, "generic"),
     VenueRow("gda", {}, "filharmonia_baltycka")}

Item(title, kind, d, link, ps, qs) ==
    [title |-> title, date |-> [kind |-> kind, d |-> d], link |-> link,
     performers |-> ps, pieces |-> qs]

Doe == <<[name |-> "Doe", role |-> "conductor"]>>
Opus == <<[composer |-> Str("c", 3), title |-> Str("x", 3)]>>

\* items: the candidates of the listing; more: the candidates of the readable
\* text (generic), of the further months (NOSPR), of the category pages
\* (Baltycka)
PageOf(name) ==
    CASE name = "site-a" ->
            [items |-> <<Item("Gala", "none", 0, TRUE, <<>>, <<>>)>>, more |-> <<>>]
      [] name = "site-b" ->
            [items |-> <<>>, more |-> <<Item("Gala", "parsed", 1, FALSE, Doe, <<>>)>>]
      [] name = "fn" ->
            [items |-> <<Item("Gala", "dm", 1, TRUE, Doe, Opus),
                         Item("Recital", "none", 0, TRUE, <<>>, <<>>)>>,
             more |-> <<>>]
      [] name = "nospr" ->
            [items |-> <<Item("Gala", "parsed", 1, TRUE, Doe, <<>>)>>,
             more |-> <<Item("Recital", "parsed", 2, TRUE, <<>>, Opus)>>]
      [] name = "nfm" ->
            [items |-> <<Item("Gala", "dm", 2, TRUE, Doe, Opus),
                         Item("Recital", "parsed", 1, FALSE, <<>>, <<>>)>>,
             more |-> <<>>]
      [] name = "krakow" ->
            [items |-> <<Item("Gala", "parsed", 1, TRUE, Doe, Opus),
                         Item("Recital", "none", 0, TRUE, <<>>, <<>>)>>,
             more |-> <<>>]
      [] OTHER ->
            [items |-> <<>>, more |-> <<Item("Gala", "parsed", 2, TRUE, Doe, Opus)>>]

\* What the world does to one run: whether the database answers the first
\* query, whether the base fetch and the further fetches return a document,
\* which items' detail fetches do, which items' saves raise, whether the
\* commit of last_scraped succeeds.  Only what the strategy looks at varies.
Envs(k, page) ==
    LET n == Len(page.items) + Len(page.more)
        B(varies) == IF varies THEN BOOLEAN ELSE {TRUE}
    IN [db_ok : B(k = "FilharmoniaNarodowaScraper"),
        base_ok : BOOLEAN,
        more_ok : B(page.more # <<>>),
        detail_ok : IF IsGeneric(k) THEN {1..n} ELSE SUBSET (1..n),
        save_raises : SUBSET (1..n),
        commit_ok : BOOLEAN]

Clean(e, page) ==
    /\ e.db_ok /\ e.base_ok /\ e.more_ok /\ e.commit_ok
    /\ e.detail_ok = 1..(Len(page.items) + Len(page.more))
    /\ e.save_raises = {}

\* the id scrape_venue is called with that has no Venue row
NoSuchVenue == 3

VenueGetAny(vs, id) == IF id \in DOMAIN vs THEN id ELSE 1

\* Venue.query.get(venue_id): the row's id, 0 for None
VenueGet(vs, id) == IF id \in DOMAIN vs THEN id ELSE 0

\* scraper.scrape() on venue v, the first database query included
Run(v, e) ==
    LET k == get_scraper(venue[v]) IN
    IF k = "FilharmoniaNarodowaScraper" /\ ~e.db_ok
    THEN [db |-> DB, ret |-> FALSE, raised |-> FALSE, fetches |-> 0, saved |-> 0,
          last_scraped |-> venue[v].last_scraped]
    ELSE Scrape(k, v, DB, PageOf(venue[v].name), e, now, venue[v].last_scraped)

\* the titles of the items whose detail page the strategy asked for and did
\* not get
DetailFailed(k, items, e, t) ==
    {items[i].title : i \in {j \in DOMAIN items :
                                FetchesDetail(k, items[j], t) /\ j \notin e.detail_ok}}

DetailFailedOf(v, e) ==
    IF v = 0 \/ (~e.base_ok /\ BaseFailStops(get_scraper(venue[v])))
       \/ (get_scraper(venue[v]) = "FilharmoniaNarodowaScraper" /\ ~e.db_ok)
    THEN {}
    ELSE DetailFailed(get_scraper(venue[v]),
                      Capped(get_scraper(venue[v]),
                             ItemsOf(get_scraper(venue[v]), PageOf(venue[v].name), e)),
                      e, now)

\* what a run leaves behind for the properties to read
ScrapeRecord(op, id, v, e, r) ==
    [called |-> TRUE, op |-> op, venue_id |-> id, found |-> id \in DOMAIN venue,
     strategy |-> IF v = 0 THEN "none" ELSE get_scraper(venue[v]),
     ret |-> r.ret, raised |-> r.raised, fetches |-> r.fetches, saved |-> r.saved,
     base_ok |-> e.base_ok,
     detail_failed |-> DetailFailedOf(v, e),
     clean |-> v # 0 /\ Clean(e, PageOf(venue[v].name)),
     rerun |-> /\ v # 0 /\ Clean(e, PageOf(venue[v].name))
               /\ last_scrape.called /\ last_scrape.clean
               /\ last_scrape.venue_id = id,
     grew |-> Len(r.db.concerts) - Len(concerts),
     touched |-> v # 0 /\ r.last_scraped # venue[v].last_scraped]

Apply(v, r) ==
    /\ concerts' = r.db.concerts
    /\ performers' = r.db.performers
    /\ pieces' = r.db.pieces
    /\ concert_performer' = r.db.concert_performer
    /\ concert_piece' = r.db.concert_piece
    /\ venue' = [venue EXCEPT ![v].last_scraped = r.last_scraped]

NoRun == [db |-> DB, ret |-> FALSE, raised |-> FALSE, fetches |-> 0, saved |-> 0]
NoEnv == [base_ok |-> TRUE]

\* scrape_venue(venue_id)
scrape_venue ==
    /\ \E id \in DOMAIN venue \cup {NoSuchVenue} :
         LET v == VenueGet(venue, id) IN
           \/ /\ v = 0
              /\ last_scrape' = ScrapeRecord("scrape_venue", id, 0, NoEnv, NoRun)
              /\ UNCHANGED <<venue, store>>
           \/ /\ v # 0
              /\ \E e \in Envs(get_scraper(venue[v]), PageOf(venue[v].name)) :
                   \E r \in {Run(v, e)} :
                     /\ Apply(v, r)
                     /\ last_scrape' = ScrapeRecord("scrape_venue", id, v, e, r)
    /\ UNCHANGED <<now, last_save, batch, last_parse, web>>

OnRaiseAbort(b, v) ==
    [b EXCEPT !.raised = @ \cup {v}, !.attempted = @ \cup {v}, !.pc = "done"]

\* the except branch of the loop body: results[venue.id] = False, and the
\* loop goes on
OnRaise(b, v) ==
    [b EXCEPT !.results = @ @@ (v :> FALSE), !.raised = @ \cup {v},
              !.attempted = @ \cup {v}, !.next = @ + 1]

\* results[venue.id] = success
OnReturn(b, v, ret) ==
    [b EXCEPT !.results = @ @@ (v :> ret), !.attempted = @ \cup {v}, !.next = @ + 1]

\* scrape_all_venues up to its loop: venues = Venue.query.all(), results = {}
scrape_all_venues_begin ==
    /\ batch.pc # "loop"
    /\ batch' = [pc |-> "loop", next |-> 1, results |-> <<>>, raised |-> {},
                 attempted |-> {}]
    /\ UNCHANGED <<venue, store, now, last_save, last_scrape, last_parse, web>>

\* one iteration of the loop
scrape_all_venues_loop ==
    /\ batch.pc = "loop"
    /\ batch.next <= Len(venue)
    /\ LET v == batch.next IN
         \E e \in Envs(get_scraper(venue[v]), PageOf(venue[v].name)) :
           \E r \in {Run(v, e)} :
             /\ Apply(v, r)
             /\ batch' = IF r.raised THEN OnRaise(batch, v)
                         ELSE OnReturn(batch, v, r.ret)
    /\ UNCHANGED <<now, last_save, last_scrape, last_parse, web>>

\* return results
scrape_all_venues_return ==
    /\ batch.pc = "loop"
    /\ batch.next > Len(venue)
    /\ batch' = [batch EXCEPT !.pc = "done"]
    /\ UNCHANGED <<venue, store, now, last_save, last_scrape, last_parse, web>>

\* time passes
Tick ==
    /\ now < MaxNow
    /\ now' = now + 1
    /\ UNCHANGED <<venue, store, last_save, last_scrape, batch, last_parse, web>>

InitTables ==
    /\ concerts = <<>>
    /\ performers = <<>>
    /\ pieces = <<>>
    /\ concert_performer = EmptyBag
    /\ concert_piece = EmptyBag
    /\ now = 1
    /\ last_save = NoSave
    /\ last_scrape = NoScrape
    /\ batch = NoBatch
    /\ last_parse = NoParse
    /\ scraping_progress = <<>>
    /\ threads = <<>>
    /\ last_read = NoRead

\* single scrapes, on each table of one venue
InitScrape ==
    /\ \E r \in VenueRows : venue = <<r>>
    /\ InitTables

NextScrape ==
    \/ scrape_venue
    \/ Tick

SpecScrape == InitScrape /\ [][NextScrape]_vars

\* batches, on each table of two venues, the clock standing still
InitBatch ==
    /\ \E r \in VenueRows : venue = <<GenericRow, r>>
    /\ InitTables

NextBatch ==
    \/ scrape_all_venues_begin
    \/ scrape_all_venues_loop
    \/ scrape_all_venues_return

SpecBatch == InitBatch /\ [][NextBatch]_vars

-----------------------------------------------------------------------------
(* The date normalizers with their time of day.  A time fragment is        *)
(* [kind |-> "none"] when the item has no time element, "hm" for H:MM,     *)
(* "text" for words without a colon, "colon" for text with a colon that is *)
(* not H:MM (such as "19:xx").                                             *)

\* concert_date.replace(hour=19, minute=30)
DefaultTimeFN == <<19, 30>>

DefaultTimeNFMHalf == <<19, 30>>

\* hour, minute = 19, 0, and the "19:00" the caller passes without a time
\* element
DefaultTimeNFM == <<19, 0>>

\* datetime(year, month, day) and dateutil without a time in the text
Midnight == <<0, 0>>

\* the time _parse_filharmonia_date puts on a day.month date
filharmonia_time(time) ==
    IF time.kind = "hm" THEN <<time.h, time.m>> ELSE DefaultTimeFN

\* map(int, time_parts.split(':')) raises on a colon that is not H:MM
nfm_time_raises(time) == time.kind = "colon"

\* the time _parse_nfm_date computes when it does not raise
nfm_time(time) ==
    IF time.kind = "hm" THEN <<time.h, time.m>> ELSE DefaultTimeNFM

\* a normalizer returning None
NoResult == [ok |-> FALSE, day |-> 0, time |-> Midnight]

\* _parse_filharmonia_date(date_text, time_text) at clock t
ParseFilharmonia(date, time, t) ==
    LET d == parse_filharmonia_date(date, t) IN
    IF d = NoDate THEN NoResult
    ELSE [ok |-> TRUE, day |-> d[2],
          time |-> IF date.kind = "dm" THEN filharmonia_time(time) ELSE Midnight]

\* _parse_nfm_date(date_text, time_text) at clock t
ParseNFM(date, time, t) ==
    LET d == parse_nfm_date(date, t) IN
    IF d = NoDate \/ nfm_time_raises(time) THEN NoResult
    ELSE [ok |-> TRUE, day |-> d[2], time |-> nfm_time(time)]

DateTexts ==
    {[kind |-> "dm", d |-> d] : d \in 1..YearLen}
    \cup {[kind |-> "parsed", d |-> 1], [kind |-> "none", d |-> 0]}

TimeTexts ==
    {[kind |-> "none", h |-> 0, m |-> 0], [kind |-> "text", h |-> 0, m |-> 0],
     [kind |-> "colon", h |-> 0, m |-> 0], [kind |-> "hm", h |-> 18, m |-> 0]}

ParseRecord(fn, date, time, result) ==
    [called |-> TRUE, fn |-> fn, date |-> date, time |-> time, now |-> now,
     result |-> result]

UnchangedByParse ==
    UNCHANGED <<venue, store, now, last_save, last_scrape, batch, web>>

\* a call of _parse_filharmonia_date
parse_filharmonia ==
    /\ \E date \in DateTexts, time \in TimeTexts :
         last_parse' = ParseRecord("filharmonia", date, time,
                                   ParseFilharmonia(date, time, now))
    /\ UnchangedByParse

\* a call of _parse_nfm_date from NFMWroclawScraper.scrape
parse_nfm ==
    /\ \E date \in DateTexts, time \in TimeTexts :
         last_parse' = ParseRecord("nfm", date, time, ParseNFM(date, time, now))
    /\ UnchangedByParse

NextDates ==
    \/ parse_filharmonia
    \/ parse_nfm
    \/ Tick

SpecDates == Init /\ [][NextDates]_vars

-----------------------------------------------------------------------------
(* The background scrape of routes.api_scrape_venue and the progress map.  *)
(* A thread takes one step per write to scraping_progress; the strategy    *)
(* run inside it is one step on the store, and the progress updates the    *)
(* strategy made are written one by one after it.                          *)

\* most background threads started in one behaviour
MaxThreads == 1

\* None in the 'error' field
NoError == "None"

StartingEntryQueued ==
    [status |-> "queued", current |-> 0, total |-> 0, error |-> NoError]

\* scraping_progress[venue_id] = {...} of api_scrape_venue
StartingEntry ==
    [status |-> "starting", current |-> 0, total |-> 0, error |-> NoError]

\* the default of scraping_progress.get in api_get_scraping_progress
NotFoundEntry ==
    [status |-> "not_found", current |-> 0, total |-> 0, error |-> NoError]

\* div/article elements with 'concert' in their class, which the wrapper
\* counts for a venue without one of its three domains; on the page of
\* "krakow" the two concert links stand in three such elements
ConcertBlocks(name) ==
    CASE name = "site-a" -> 1
      [] name = "krakow" -> 3
      [] OTHER -> 0

\* the items progress_wrapper counts on the base page
WrapperItems(v) ==
    IF v.url \cap {"filharmonia.pl", "nfm.wroclaw.pl", "nospr.org.pl"} # {}
    THEN Len(PageOf(v.name).items)
    ELSE ConcertBlocks(v.name)

\* total_items = min(5, len(items))
TotalItems(v) == MinNat(5, WrapperItems(v))

\* max_concerts, the total the three listing strategies report
MaxConcerts == 5

\* the _update_progress calls of one pass over the items, <<current, total>>
RECURSIVE LoopUpdates(_, _, _, _, _)
LoopUpdates(k, items, i, e, t) ==
    IF i > Len(items) THEN <<>>
    ELSE
      (IF CountsOnlySuccess(k) THEN <<<<i - 1, Len(items)>>>>
       ELSE IF Reaches(k, items[i], i, e, t)
            THEN <<<<i - 1, MaxConcerts>>, <<i, MaxConcerts>>>>
            ELSE <<<<i - 1, MaxConcerts>>>>)
      \o LoopUpdates(k, items, i + 1, e, t)

\* the _update_progress calls of one run of strategy k, in order
ProgressUpdates(k, page, e, t) ==
    LET items == Capped(k, ItemsOf(k, page, e)) IN
    IF IsGeneric(k) \/ (k = "FilharmoniaNarodowaScraper" /\ ~e.db_ok) THEN <<>>
    ELSE IF CountsOnlySuccess(k)
         THEN <<<<0, 10>>>>
              \o (IF ~e.base_ok THEN <<>>
                  ELSE LoopUpdates(k, items, 1, e, t)
                       \o (IF e.commit_ok THEN <<<<Len(items), Len(items)>>>>
                           ELSE <<>>))
         ELSE IF ~e.base_ok /\ BaseFailStops(k) THEN <<>>
              ELSE LoopUpdates(k, items, 1, e, t)

\* scraping_progress[id] with the fields of w written
Put(id, w) == (id :> w) @@ scraping_progress

NewThread(id) ==
    [venue_id |-> id, pc |-> "begin", total_items |-> 0, todo |-> <<>>,
     ret |-> FALSE, raised |-> FALSE]

UnchangedByWeb == UNCHANGED <<now, last_save, last_scrape, batch, last_parse>>

\* api_scrape_venue(venue_id): the entry is set and the thread started
api_scrape_venue ==
    /\ Len(threads) < MaxThreads
    /\ \E id \in DOMAIN venue \cup {NoSuchVenue} :
         /\ scraping_progress' = Put(id, StartingEntry)
         /\ threads' = Append(threads, NewThread(id))
    /\ UNCHANGED <<venue, store, last_read>>
    /\ UnchangedByWeb

\* scrape_with_progress: status = 'running'
thread_running(n) ==
    LET th == threads[n] IN
    /\ th.pc = "begin"
    /\ scraping_progress' =
         Put(th.venue_id, [scraping_progress[th.venue_id] EXCEPT !.status = "running"])
    /\ threads' = [threads EXCEPT ![n].pc = "wrapper"]
    /\ UNCHANGED <<venue, store, last_read>>
    /\ UnchangedByWeb

\* scrape_with_progress from the venue lookup to the count of progress_wrapper
thread_wrapper(n) ==
    LET th == threads[n]
        id == th.venue_id
        v  == VenueGet(venue, id)
        old == scraping_progress[id]
    IN
    /\ th.pc = "wrapper"
    /\ \/ /\ v = 0
          /\ scraping_progress' =
               Put(id, [old EXCEPT !.status = "error", !.error = "Venue not found"])
          /\ threads' = [threads EXCEPT ![n].pc = "end"]
       \/ /\ v # 0
          /\ \E fetched \in BOOLEAN :
               IF fetched
               THEN /\ scraping_progress' =
                         Put(id, [old EXCEPT !.total = TotalItems(venue[v])])
                    /\ threads' = [threads EXCEPT ![n].pc = "scrape",
                                                  ![n].total_items = TotalItems(venue[v])]
               ELSE /\ scraping_progress' =
                         Put(id, [old EXCEPT !.status = "error",
                                             !.error = "Failed to fetch venue page"])
                    /\ threads' = [threads EXCEPT ![n].pc = "end"]
    /\ UNCHANGED <<venue, store, last_read>>
    /\ UnchangedByWeb

\* result = original_scrape()
thread_scrape(n) ==
    LET th == threads[n]
        v  == VenueGet(venue, th.venue_id)
    IN
    /\ th.pc = "scrape"
    /\ \E e \in Envs(get_scraper(venue[v]), PageOf(venue[v].name)) :
         \E r \in {Run(v, e)} :
           /\ Apply(v, r)
           /\ threads' = [threads EXCEPT
                ![n].pc = "report",
                ![n].todo = ProgressUpdates(get_scraper(venue[v]),
                                            PageOf(venue[v].name), e, now),
                ![n].ret = r.ret,
                ![n].raised = r.raised]
    /\ UNCHANGED <<scraping_progress, last_read>>
    /\ UnchangedByWeb

\* one _update_progress call of the strategy
thread_update(n) ==
    LET th == threads[n]
        id == th.venue_id
    IN
    /\ th.pc = "report"
    /\ th.todo # <<>>
    /\ scraping_progress' =
         IF id \in DOMAIN scraping_progress
         THEN Put(id, [scraping_progress[id] EXCEPT !.current = Head(th.todo)[1],
                                                    !.total = Head(th.todo)[2]])
         ELSE scraping_progress
    /\ threads' = [threads EXCEPT ![n].todo = Tail(th.todo)]
    /\ UNCHANGED <<venue, store, last_read>>
    /\ UnchangedByWeb

\* the entry whatever original_scrape() gave
FinalEntryTruthy(old, th) ==
    IF th.raised
    THEN [old EXCEPT !.status = "error", !.error = "exception"]
    ELSE [old EXCEPT !.status = "completed", !.current = th.total_items]

\* the entry left as it is when original_scrape() gave False
FinalEntryPending(old, th) ==
    IF th.raised
    THEN [old EXCEPT !.status = "error", !.error = "exception"]
    ELSE IF th.ret
         THEN [old EXCEPT !.status = "completed", !.current = th.total_items]
         ELSE old

\* the entry progress_wrapper leaves after original_scrape(), `old` being
\* the entry before: str(e) of an exception, else completed for a true
\* result, else 'Scraping failed'
FinalEntry(old, th) ==
    IF th.raised
    THEN [old EXCEPT !.status = "error", !.error = "exception"]
    ELSE IF th.ret
         THEN [old EXCEPT !.status = "completed", !.current = th.total_items]
         ELSE [old EXCEPT !.status = "error", !.error = "Scraping failed"]

\* progress_wrapper after original_scrape(): completed, or error
thread_result(n) ==
    LET th == threads[n]
        id == th.venue_id
        old == scraping_progress[id]
    IN
    /\ th.pc = "report"
    /\ th.todo = <<>>
    /\ scraping_progress' = Put(id, FinalEntry(old, th))
    /\ threads' = [threads EXCEPT ![n].pc = "end"]
    /\ UNCHANGED <<venue, store, last_read>>
    /\ UnchangedByWeb

\* api_get_scraping_progress(venue_id)
api_get_scraping_progress ==
    /\ \E id \in DOMAIN venue \cup {NoSuchVenue} :
         last_read' =
           [called |-> TRUE, venue_id |-> id,
            started |-> id \in DOMAIN scraping_progress,
            progress |-> IF id \in DOMAIN scraping_progress
                         THEN scraping_progress[id] ELSE NotFoundEntry]
    /\ UNCHANGED <<venue, store, scraping_progress, threads>>
    /\ UnchangedByWeb

NextProgress ==
    \/ api_scrape_venue
    \/ \E n \in DOMAIN threads : thread_running(n)
    \/ \E n \in DOMAIN threads : thread_wrapper(n)
    \/ \E n \in DOMAIN threads : thread_scrape(n)
    \/ \E n \in DOMAIN threads : thread_update(n)
    \/ \E n \in DOMAIN threads : thread_result(n)
    \/ api_get_scraping_progress

SpecProgress == InitScrape /\ [][NextProgress]_vars

\* the steps of the n-th background thread
thread_step(n) ==
    /\ n \in DOMAIN threads
    /\ \/ thread_running(n)
       \/ thread_wrapper(n)
       \/ thread_scrape(n)
       \/ thread_update(n)
       \/ thread_result(n)

\* the start requests and the threads, without the readers of the map
NextThreads ==
    \/ api_scrape_venue
    \/ \E n \in DOMAIN threads : thread_step(n)

\* A started daemon thread is scheduled until its function returns, every
\* fetch inside it returning a document or None after the timeout.
SpecProgressFair ==
    /\ InitScrape
    /\ [][NextThreads]_vars
    /\ \A n \in 1..MaxThreads : WF_vars(thread_step(n))

-----------------------------------------------------------------------------
(* GenericScraper.scrape at the level of the page text.  A page is a      *)
(* sequence of blocks; a block is [tag, class, children], each child      *)
(* [tag, class, text]; texts are strings read character by character.     *)
(* class is the set of the terms the code searches for that occur in the  *)
(* class attribute.  Texts are ASCII.                                      *)

\* F(v), v being evaluated once
Bind(v, F(_)) == CHOOSE y \in {F(z) : z \in {v}} : TRUE

Least(S) == Bind(S, LAMBDA T : IF T = {} THEN 0 ELSE CHOOSE m \in T : \A n \in T : m <= n)
Greatest(S) == Bind(S, LAMBDA T : IF T = {} THEN 0 ELSE CHOOSE m \in T : \A n \in T : m >= n)

\* s[i-1:j] of Python, the positions counted from 1
Sub(s, i, j) ==
    IF MaxNat(i, 1) > MinNat(j, Len(s)) THEN ""
    ELSE SubSeq(s, MaxNat(i, 1), MinNat(j, Len(s)))

Ch(s, i) == Sub(s, i, i)
From(s, i) == Sub(s, i, Len(s))

UpperCase == "ABCDEFGHIJKLMNOPQRSTUVWXYZ"
LowerCase == "abcdefghijklmnopqrstuvwxyz"
DigitChars == "0123456789"

CharsOf(alphabet) == {Ch(alphabet, i) : i \in 1..Len(alphabet)}
UpperChars == CharsOf(UpperCase)
LowerChars == CharsOf(LowerCase)
Digits == CharsOf(DigitChars)
\* \w and \s
WordChars == UpperChars \cup LowerChars \cup Digits \cup {"_"}
SpaceChars == {" ", "\n", "\t"}

IsUpper(c) == c \in UpperChars
IsLower(c) == c \in LowerChars
IsAlpha(c) == c \in UpperChars \/ c \in LowerChars
IsDigit(c) == c \in Digits
IsSpace(c) == c \in SpaceChars

IndexIn(alphabet, c) == CHOOSE i \in 1..Len(alphabet) : Ch(alphabet, i) = c
LowerOf == [c \in UpperChars |-> Ch(LowerCase, IndexIn(UpperCase, c))]
UpperOf == [c \in LowerChars |-> Ch(UpperCase, IndexIn(LowerCase, c))]
ValueOf == [c \in Digits |-> IndexIn(DigitChars, c) - 1]

ToLower(c) == IF c \in UpperChars THEN LowerOf[c] ELSE c
ToUpper(c) == IF c \in LowerChars THEN UpperOf[c] ELSE c

\* the string of F(c) for the characters c of s from i to j
RECURSIVE MapChars(_, _, _, _)
MapChars(F(_, _), s, i, j) ==
    IF i > j THEN ""
    ELSE IF i = j THEN F(s, i)
    ELSE Bind((i + j) \div 2, LAMBDA m : MapChars(F, s, i, m) \o MapChars(F, s, m + 1, j))

lower(s) ==
    Bind(s, LAMBDA v : MapChars(LAMBDA w, i : ToLower(Ch(w, i)), v, 1, Len(v)))

\* str.title(): a letter that follows a letter is lowered, any other letter
\* is raised
title_case(s) ==
    Bind(s, LAMBDA v :
        MapChars(LAMBDA w, i : IF IsAlpha(Ch(w, i - 1)) THEN ToLower(Ch(w, i))
                               ELSE ToUpper(Ch(w, i)), v, 1, Len(v)))

strip(s) ==
    Bind(s, LAMBDA v :
        Bind({k \in 1..Len(v) : ~IsSpace(Ch(v, k))}, LAMBDA ks :
            Sub(v, Least(ks), Greatest(ks))))

\* s[i-1:].startswith(sub)
StartsAt(s, i, sub) == Sub(s, i, i + Len(sub) - 1) = sub

\* where sub occurs in s
Occurrences(s, sub) == {i \in 1..Len(s) : StartsAt(s, i, sub)}

\* str.find counted from 1: 0 when sub does not occur in s
find(s, sub) == Least(Occurrences(s, sub))

In(sub, s) == \E i \in 1..Len(s) : StartsAt(s, i, sub)

\* the length of the longest run of characters of a class that starts at i
RunOf(Class, s, i) ==
    Bind(i, LAMBDA j : Least({k \in j..(Len(s) + 1) : Ch(s, k) \notin Class}) - j)

DigitRun(s, i) == RunOf(Digits, s, i)
SpaceRun(s, i) == RunOf(SpaceChars, s, i)
AlphaRun(s, i) == RunOf(UpperChars \cup LowerChars, s, i)

DateSeps == {"/", ".", "-"}

RECURSIVE NumFrom(_, _)
NumFrom(s, n) ==
    IF n = 0 THEN 0 ELSE 10 * NumFrom(s, n - 1) + ValueOf[Ch(s, n)]

\* int(s) for a string of digits
Num(s) == Bind(s, LAMBDA v : NumFrom(v, Len(v)))

\* \d{1,2}[/\.-]\d{1,2}[/\.-]\d{2,4}
DatePattern1At(s, i) ==
    Bind(DigitRun(s, i), LAMBDA a :
    IF ~(a \in 1..2 /\ Ch(s, i + a) \in DateSeps) THEN 0
    ELSE Bind(DigitRun(s, i + a + 1), LAMBDA b :
    IF ~(b \in 1..2 /\ Ch(s, i + a + b + 1) \in DateSeps) THEN 0
    ELSE Bind(MinNat(DigitRun(s, i + a + b + 2), 4), LAMBDA c :
    IF c >= 2 THEN a + b + c + 2 ELSE 0)))

\* \d{4}[/\.-]\d{1,2}[/\.-]\d{1,2}
DatePattern2At(s, i) ==
    IF ~(DigitRun(s, i) >= 4 /\ Ch(s, i + 4) \in DateSeps) THEN 0
    ELSE Bind(DigitRun(s, i + 5), LAMBDA b :
    IF ~(b \in 1..2 /\ Ch(s, i + b + 5) \in DateSeps) THEN 0
    ELSE Bind(MinNat(DigitRun(s, i + b + 6), 2), LAMBDA c :
    IF c >= 1 THEN b + c + 6 ELSE 0))

\* \d{1,2}\s+[A-Za-z]+\s+\d{4}
DatePattern3At(s, i) ==
    Bind(DigitRun(s, i), LAMBDA a :
    IF a \notin 1..2 THEN 0
    ELSE Bind(SpaceRun(s, i + a), LAMBDA s1 :
    IF s1 = 0 THEN 0
    ELSE Bind(AlphaRun(s, i + a + s1), LAMBDA w :
    IF w = 0 THEN 0
    ELSE Bind(SpaceRun(s, i + a + s1 + w), LAMBDA s2 :
    IF s2 >= 1 /\ DigitRun(s, i + a + s1 + w + s2) >= 4
    THEN a + s1 + w + s2 + 4 ELSE 0))))

\* \s*,?\s*\d{4} at position j: the length of the match, 0 when none
YearAfterCommaAt(s, j) ==
    Bind(SpaceRun(s, j), LAMBDA s2 :
    Bind(IF Ch(s, j + s2) = "," THEN 1 ELSE 0, LAMBDA k :
    Bind(SpaceRun(s, j + s2 + k), LAMBDA s3 :
    IF DigitRun(s, j + s2 + k + s3) >= 4 THEN s2 + k + s3 + 4 ELSE 0)))

\* [A-Za-z]+\s+\d{1,2}\s*,?\s*\d{4}
DatePattern4At(s, i) ==
    Bind(AlphaRun(s, i), LAMBDA w :
    IF w = 0 THEN 0
    ELSE Bind(SpaceRun(s, i + w), LAMBDA s1 :
    IF s1 = 0 THEN 0
    ELSE Bind(DigitRun(s, i + w + s1), LAMBDA d :
    Bind(YearAfterCommaAt(s, i + w + s1 + 2), LAMBDA y2 :
    Bind(YearAfterCommaAt(s, i + w + s1 + 1), LAMBDA y1 :
    IF d >= 2 /\ y2 # 0 THEN w + s1 + 2 + y2
    ELSE IF d >= 1 /\ y1 # 0 THEN w + s1 + 1 + y1
    ELSE 0)))))

\* Lines 303-311, date_patterns: the length of the match that starts at i,
\* the alternatives tried in their order; 0 when none matches there.
\* Patterns 5 to 7 match only where pattern 2 or pattern 1 matches the
\* same text.
DateAt(s, i) ==
    Bind(DatePattern1At(s, i), LAMBDA n1 : IF n1 # 0 THEN n1 ELSE
    Bind(DatePattern2At(s, i), LAMBDA n2 : IF n2 # 0 THEN n2 ELSE
    Bind(DatePattern3At(s, i), LAMBDA n3 : IF n3 # 0 THEN n3 ELSE
    DatePattern4At(s, i))))

\* re.finditer of the date patterns over the positions starts where one
\* of them matches: the matches as <<start, length>>
RECURSIVE DateMatchesOver(_, _, _)
DateMatchesOver(s, starts, acc) ==
    IF starts = {} THEN acc
    ELSE Bind(Least(starts), LAMBDA i :
         Bind(DateAt(s, i), LAMBDA n :
         Bind({o \in starts : o >= i + n}, LAMBDA rest :
              DateMatchesOver(s, rest, Append(acc, <<i, n>>)))))

DateMatches(s) ==
    Bind({i \in 1..Len(s) : DateAt(s, i) # 0}, LAMBDA starts :
        DateMatchesOver(s, starts, <<>>))

\* line 315, re.search(combined_pattern, text): the leftmost match, "" when
\* there is none
DateMatch(s) ==
    Bind(Least({i \in 1..Len(s) : DateAt(s, i) # 0}), LAMBDA i :
        IF i = 0 THEN "" ELSE Sub(s, i, i + DateAt(s, i) - 1))

\* line 343: re.sub(r'[^\w\s\d/.,:-]', '', date_text)
CleanDate(s) ==
    Bind(s, LAMBDA v :
        MapChars(LAMBDA w, i :
                    IF Ch(w, i) \in WordChars \cup SpaceChars \cup {"/", ".", ",", ":", "-"}
                    THEN Ch(w, i) ELSE "", v, 1, Len(v)))

\* lines 336-340
date_formats ==
    << <<"%Y", "-", "%m", "-", "%d">>, <<"%d", "/", "%m", "/", "%Y">>,
       <<"%m", "/", "%d", "/", "%Y">>, <<"%d", ".", "%m", ".", "%Y">>,
       <<"%Y", "/", "%m", "/", "%d">>, <<"%B", " ", "%d", ",", " ", "%Y">>,
       <<"%d", " ", "%B", " ", "%Y">>, <<"%B", " ", "%d", " ", "%Y">>,
       <<"%d", " ", "%b", " ", "%Y">>, <<"%b", " ", "%d", ",", " ", "%Y">>,
       <<"%d", "-", "%m", "-", "%Y">>, <<"%m", "-", "%d", "-", "%Y">>,
       <<"%Y", ".", "%m", ".", "%d">>, <<"%d", ".", "%b", ".", "%Y">> >>

MonthNames ==
    <<"january", "february", "march", "april", "may", "june", "july",
      "august", "september", "october", "november", "december">>

IsLeap(y) == y % 4 = 0 /\ (y % 100 # 0 \/ y % 400 = 0)

DaysIn(y, m) ==
    IF m = 2 THEN (IF IsLeap(y) THEN 29 ELSE 28)
    ELSE IF m \in {4, 6, 9, 11} THEN 30 ELSE 31

NoFields == [Y |-> 0, m |-> 0, d |-> 0]

\* The assignments of year, month and day under which the format, from its
\* k-th element on, matches the text from position i to its end, as the
\* regular expression datetime.strptime builds from the format finds them:
\* %Y is four digits, %m and %d one or two, %B and %b a month name whatever
\* its case, a blank of the format any run of blanks.
RECURSIVE Fields(_, _, _, _, _)
Fields(text, i, fmt, k, acc) ==
    IF k > Len(fmt) THEN (IF i > Len(text) THEN {acc} ELSE {})
    ELSE LET f == fmt[k]
             Val(n) == Num(Sub(text, i, i + n - 1))
             Go(n, a) == Bind(a, LAMBDA b : Fields(text, i + n, fmt, k + 1, b))
         IN Bind(DigitRun(text, i), LAMBDA digits :
            CASE f = "%Y" ->
                   IF digits >= 4 THEN Go(4, [acc EXCEPT !.Y = Val(4)]) ELSE {}
              [] f = "%m" ->
                   UNION {IF digits >= n /\ Val(n) \in 1..12
                          THEN Go(n, [acc EXCEPT !.m = Val(n)]) ELSE {} : n \in 1..2}
              [] f = "%d" ->
                   UNION {IF digits >= n /\ Val(n) \in 1..31
                          THEN Go(n, [acc EXCEPT !.d = Val(n)]) ELSE {} : n \in 1..2}
              [] f \in {"%B", "%b"} ->
                   UNION {Bind(IF f = "%b" THEN Sub(MonthNames[m], 1, 3)
                               ELSE MonthNames[m], LAMBDA name :
                            IF lower(Sub(text, i, i + Len(name) - 1)) = name
                            THEN Go(Len(name), [acc EXCEPT !.m = m]) ELSE {}) :
                          m \in 1..12}
              [] f = " " ->
                   UNION {Go(n, acc) : n \in 1..SpaceRun(text, i)}
              [] OTHER ->
                   IF Ch(text, i) = f THEN Go(1, acc) ELSE {})

\* datetime.strptime(text, fmt): the date, NoFields when it raises ValueError
strptime(text, fmt) ==
    Bind({a \in Fields(text, 1, fmt, 1, [NoFields EXCEPT !.d = 1]) :
             a.d <= DaysIn(a.Y, a.m)}, LAMBDA fs :
        IF fs = {} THEN NoFields ELSE CHOOSE a \in fs : TRUE)

Ymd(a) == <<"ymd", a.Y, a.m, a.d>>

\* the first of the formats k.. that parses the text
RECURSIVE TryFormats(_, _, _)
TryFormats(text, k, default) ==
    IF k > Len(date_formats) THEN default
    ELSE Bind(strptime(text, date_formats[k]), LAMBDA a :
         IF a # NoFields THEN Ymd(a) ELSE TryFormats(text, k + 1, default))

\* lines 334-353: the default is datetime.now()
ParseDateText(date_text, t) ==
    IF date_text = "" THEN At(t)
    ELSE Bind(strip(CleanDate(date_text)), LAMBDA text : TryFormats(text, 1, At(t)))

AllOf(Class, s) == \A i \in 1..Len(s) : Ch(s, i) \in Class

\* lines 227-233
instruments ==
    <<"conductor", "piano", "violin", "cello", "viola", "bass", "flute",
      "clarinet", "oboe", "bassoon", "trumpet", "horn", "trombone", "tuba",
      "percussion", "harp", "organ", "harpsichord", "guitar", "soprano",
      "mezzo-soprano", "alto", "tenor", "baritone", "bass", "choir", "orchestra",
      "soloist", "quartet", "ensemble", "pianist", "violinist", "cellist">>

\* lines 213-224, the names that an ASCII text can contain
composers ==
    <<"Mozart", "Beethoven", "Bach", "Tchaikovsky", "Brahms", "Chopin", "Debussy",
      "Ravel", "Rachmaninoff", "Stravinsky", "Schubert", "Handel", "Haydn", "Liszt",
      "Mahler", "Mendelssohn", "Prokofiev", "Puccini", "Shostakovich", "Sibelius",
      "Schumann", "Verdi", "Wagner", "Vivaldi", "Grieg", "Berlioz",
      "Britten", "Bruckner", "Elgar", "Gershwin", "Glass",
      "Holst", "Ligeti", "Monteverdi", "Mussorgsky", "Purcell", "Reich",
      "Rimsky-Korsakov", "Satie", "Schoenberg", "Tallis", "Vaughan Williams",
      "Bernstein", "Copland", "Barber">>

\* [\w\s\-\']
NameChars == WordChars \cup SpaceChars \cup {"-", "'"}

\* rf'{instrument}\s*:?\s*([\w\s\-\']+)' at an occurrence i of the
\* instrument: the name and where the match ends.  When no name character
\* follows, the group is a blank given back by \s* and the name is empty;
\* when no blank precedes either, there is no match.
PerformerAt(s, i, instrument) ==
    Bind(i + Len(instrument), LAMBDA j :
    Bind(SpaceRun(s, j), LAMBDA s1 :
    Bind(IF Ch(s, j + s1) = ":" THEN 1 ELSE 0, LAMBDA k :
    Bind(SpaceRun(s, j + s1 + k), LAMBDA s2 :
    Bind(RunOf(NameChars, s, j + s1 + k + s2), LAMBDA n :
        [ok |-> n >= 1 \/ s1 + s2 >= 1,
         name |-> strip(Sub(s, j + s1 + k + s2, j + s1 + k + s2 + n - 1)),
         next |-> j + s1 + k + s2 + n])))))

\* lines 362-367 (and 528-532): the filter on a name
GoodName(name, strict) ==
    /\ Len(name) > 2
    /\ ~AllOf(Digits, name)
    /\ strict => \E i \in 1..Len(name) : Ch(name, i) \in WordChars \ {"_"}

\* re.finditer of the pattern of one instrument under re.IGNORECASE, over
\* the occurrences occ of the instrument in the lowered text low; the names
\* are read from s
RECURSIVE PerformersOfInstrument(_, _, _, _, _)
PerformersOfInstrument(s, occ, instrument, strict, acc) ==
    IF occ = {} THEN acc
    ELSE Bind(Least(occ), LAMBDA i :
         Bind(PerformerAt(s, i, instrument), LAMBDA m :
         Bind(IF m.ok /\ GoodName(m.name, strict)
              THEN Append(acc, [name |-> title_case(m.name), role |-> instrument])
              ELSE acc, LAMBDA acc1 :
         Bind({o \in occ : o > i /\ (m.ok => o >= m.next)}, LAMBDA rest :
              PerformersOfInstrument(s, rest, instrument, strict, acc1)))))

\* the entries of a list that occur in the text
Present(list, s) == SelectSeq(list, LAMBDA w : In(w, s))

\* the loop over the instruments, roles being those that occur in the text
RECURSIVE PerformersByRole(_, _, _, _, _, _)
PerformersByRole(s, low, roles, k, strict, acc) ==
    IF k > Len(roles) THEN acc
    ELSE Bind(Occurrences(low, roles[k]), LAMBDA occ :
         Bind(PerformersOfInstrument(s, occ, roles[k], strict, acc),
              LAMBDA acc1 : PerformersByRole(s, low, roles, k + 1, strict, acc1)))

\* (?:\s+[A-Z][a-z]+){1,3} at position i: the length of the match after
\* `words` words, 0 when there is none
RECURSIVE MoreWords(_, _, _)
MoreWords(s, i, words) ==
    IF words >= 4 THEN 0
    ELSE Bind(SpaceRun(s, i), LAMBDA sp :
         IF ~(sp >= 1 /\ Ch(s, i + sp) \in UpperChars) THEN 0
         ELSE Bind(RunOf(LowerChars, s, i + sp + 1), LAMBDA lo :
              IF lo = 0 THEN 0
              ELSE sp + 1 + lo +
                   Bind(i + sp + 1 + lo, LAMBDA j : MoreWords(s, j, words + 1))))

\* r'([A-Z][a-z]+(?:\s+[A-Z][a-z]+){1,3})' at position i: the length of
\* the match, 0 when there is none
CapitalizedAt(s, i) ==
    IF Ch(s, i) \notin UpperChars THEN 0
    ELSE Bind(RunOf(LowerChars, s, i + 1), LAMBDA lo :
         IF lo = 0 THEN 0
         ELSE Bind(MoreWords(s, i + 1 + lo, 1), LAMBDA more :
              IF more > 0 THEN 1 + lo + more ELSE 0))

\* re.findall of the capitalized names over the positions starts
RECURSIVE CapitalizedOver(_, _, _)
CapitalizedOver(s, starts, acc) ==
    IF starts = {} THEN acc
    ELSE Bind(Least(starts), LAMBDA i :
         Bind(CapitalizedAt(s, i), LAMBDA n :
         Bind(IF n = 0 THEN acc ELSE Append(acc, Sub(s, i, i + n - 1)), LAMBDA acc1 :
         Bind({o \in starts : o >= i + MaxNat(n, 1)}, LAMBDA rest :
              CapitalizedOver(s, rest, acc1)))))

CapitalizedNames(s) ==
    Bind({i \in 1..Len(s) : Ch(s, i) \in UpperChars}, LAMBDA starts :
        CapitalizedOver(s, starts, <<>>))

\* name.lower() not in [...]
SelectNames(names, excluded) ==
    SelectSeq(names, LAMBDA n : lower(n) \notin excluded)

AsPerformers(names, role) ==
    [i \in DOMAIN names |-> [name |-> names[i], role |-> role]]

\* lines 370-381: the capitalized names within 30 characters of the first
\* mention of each instrument
RECURSIVE PerformersNear(_, _, _, _)
PerformersNear(s, roles, k, acc) ==
    IF k > Len(roles) THEN acc
    ELSE Bind(find(s, roles[k]), LAMBDA idx :
         Bind(acc \o AsPerformers(
                        SelectNames(CapitalizedNames(Sub(s, idx - 30, idx + 29)),
                                    {"concert", "symphony", "orchestra", "hall"}),
                        roles[k]),
              LAMBDA acc1 : PerformersNear(s, roles, k + 1, acc1)))

TBAPerformerText == <<[name |-> "TBA", role |-> "performer"]>>

\* lines 355-399; element_text is the lowered text from line 357 on
ExtractPerformers(text) ==
    Bind(lower(text), LAMBDA low :
    Bind(Present(instruments, low), LAMBDA roles :
    Bind(PerformersByRole(low, low, roles, 1, TRUE, <<>>), LAMBDA by_role :
    IF by_role # <<>> THEN by_role
    ELSE Bind(PerformersNear(low, roles, 1, <<>>), LAMBDA near :
    IF near # <<>> THEN near
    ELSE Bind(SelectNames(CapitalizedNames(text),
                          {"concert", "symphony", "orchestra", "hall", "center",
                           "theatre", "music", "program", "season", "series",
                           "performance"}), LAMBDA any :
    IF any # <<>> THEN AsPerformers(any, "performer") ELSE TBAPerformerText)))))

\* [^\n,.] of a character that is there
NotTitleChars == {"", "\n", ",", "."}
QuoteOrSpaceChars == SpaceChars \cup {"'", "\""}

\* the length of the longest run of characters outside a class that starts
\* at i, the class holding "", which Ch yields past the end
RunNotOf(Class, s, i) ==
    Bind(i, LAMBDA j : Least({k \in j..(Len(s) + 1) : Ch(s, k) \in Class}) - j)

TitleRun(s, i) == RunNotOf(NotTitleChars, s, i)

NoMatch == [ok |-> FALSE, group |-> ""]

\* rf'{composer}\s*:\s*([^\n,.]+)' (sep ":") and rf'{composer}\s*-\s*([^\n,.]+)'
\* (sep "-") at an occurrence i of the composer.  When no title character
\* follows the blanks, the group is a blank other than a newline given
\* back by \s*.
TitleAfterSepAt(s, i, composer, sep) ==
    Bind(i + Len(composer), LAMBDA j :
    Bind(SpaceRun(s, j), LAMBDA s1 :
    IF Ch(s, j + s1) # sep THEN NoMatch
    ELSE Bind(SpaceRun(s, j + s1 + 1), LAMBDA s2 :
         Bind(j + s1 + 1 + s2, LAMBDA g :
         Bind(TitleRun(s, g), LAMBDA n :
         IF n >= 1 \/ \E p \in (g - s2)..(g - 1) : Ch(s, p) # "\n"
         THEN [ok |-> TRUE, group |-> Sub(s, g, g + n - 1)]
         ELSE NoMatch)))))

\* rf'{composer}[\s\'"]+(No\.\s+\d+|[A-Z][^\n,.]+)' at an occurrence i
TitleAfterBlankAt(s, i, composer) ==
    Bind(i + Len(composer), LAMBDA j :
    Bind(RunOf(QuoteOrSpaceChars, s, j), LAMBDA q :
    IF q = 0 THEN NoMatch
    ELSE Bind(j + q, LAMBDA g :
         Bind(SpaceRun(s, g + 3), LAMBDA sp :
         Bind(DigitRun(s, g + 3 + sp), LAMBDA d :
         IF StartsAt(s, g, "No.") /\ sp >= 1 /\ d >= 1
         THEN [ok |-> TRUE, group |-> Sub(s, g, g + 2 + sp + d)]
         ELSE Bind(TitleRun(s, g + 1), LAMBDA n :
              IF Ch(s, g) \in UpperChars /\ n >= 1
              THEN [ok |-> TRUE, group |-> Sub(s, g, g + n)]
              ELSE NoMatch))))))

\* lines 412-416, title_patterns, each at an occurrence i of the composer
TitlePatternAt(p, s, i, composer) ==
    CASE p = 1 -> TitleAfterSepAt(s, i, composer, ":")
      [] p = 2 -> TitleAfterSepAt(s, i, composer, "-")
      [] OTHER -> TitleAfterBlankAt(s, i, composer)

\* re.search(pattern, surrounding_text): the leftmost match
TitleSearch(p, s, composer) ==
    Bind(Least({i \in Occurrences(s, composer) :
                    TitlePatternAt(p, s, i, composer).ok}), LAMBDA i :
        IF i = 0 THEN NoMatch ELSE TitlePatternAt(p, s, i, composer))

\* Lines 418-424 for the patterns p..3: the local name `title`, which is
\* also the title of the concert, is bound to every group that matches; the
\* first group longer than two characters is the title of the piece.
\* acc is [title, pieces].
RECURSIVE TryTitles(_, _, _, _)
TryTitles(p, s, composer, acc) ==
    IF p > 3 THEN acc
    ELSE Bind(TitleSearch(p, s, composer), LAMBDA m :
         IF ~m.ok THEN TryTitles(p + 1, s, composer, acc)
         ELSE Bind(strip(m.group), LAMBDA found :
              IF Len(found) > 2
              THEN [title |-> found,
                    pieces |-> Append(acc.pieces, [composer |-> composer,
                                                   title |-> found])]
              ELSE Bind([acc EXCEPT !.title = found], LAMBDA acc1 :
                        TryTitles(p + 1, s, composer, acc1))))

HasComposer(ps, composer) == \E i \in DOMAIN ps : ps[i].composer = composer
HasTitle(ps, t) == \E i \in DOMAIN ps : ps[i].title = t

\* lines 404-429, named being the composers that occur in the text
RECURSIVE PiecesByComposer(_, _, _, _)
PiecesByComposer(text, named, k, acc) ==
    IF k > Len(named) THEN acc
    ELSE Bind(find(text, named[k]), LAMBDA idx :
         Bind(Sub(text, idx - 10, idx + 99), LAMBDA surrounding_text :
         Bind(TryTitles(1, surrounding_text, named[k], acc), LAMBDA a1 :
         Bind(IF HasComposer(a1.pieces, named[k]) THEN a1
              ELSE [a1 EXCEPT !.pieces =
                       Append(@, [composer |-> named[k], title |-> "Work"])],
              LAMBDA a2 : PiecesByComposer(text, named, k + 1, a2)))))

\* lines 432-436
piece_keywords ==
    <<"symphony", "concerto", "sonata", "quartet", "quintet", "trio", "etude",
      "nocturne", "rhapsody", "suite", "prelude", "fugue", "variations", "ballet",
      "opera", "mass", "requiem", "cantata", "oratorio", "overture">>

\* (?:in\s+[A-G](?:\s*(?:flat|sharp|major|minor)))? at position i under
\* re.IGNORECASE: the length of the match, 0 when the clause is absent
KeyClauseAt(s, low, i) ==
    IF ~StartsAt(low, i, "in") THEN 0
    ELSE Bind(SpaceRun(s, i + 2), LAMBDA sp :
         IF ~(sp >= 1 /\ Ch(low, i + 2 + sp) \in {"a", "b", "c", "d", "e", "f", "g"})
         THEN 0
         ELSE Bind(SpaceRun(s, i + 2 + sp + 1), LAMBDA s2 :
              Bind({m \in {"flat", "sharp", "major", "minor"} :
                       StartsAt(low, i + 2 + sp + 1 + s2, m)}, LAMBDA ms :
              IF ms = {} THEN 0
              ELSE 2 + sp + 1 + s2 + Len(CHOOSE m \in ms : TRUE))))

\* line 441: rf'({keyword}\s+(?:No\.)?\s*\d*\s*(?:in ...)?)' at an
\* occurrence i of the keyword in the lowered text: the length of the match,
\* 0 when there is none
KeywordAt(s, low, i, keyword) ==
    Bind(i + Len(keyword), LAMBDA j :
    Bind(SpaceRun(s, j), LAMBDA s1 :
    IF s1 = 0 THEN 0
    ELSE Bind(IF StartsAt(low, j + s1, "no.") THEN 3 ELSE 0, LAMBDA no :
         Bind(SpaceRun(s, j + s1 + no), LAMBDA s2 :
         Bind(DigitRun(s, j + s1 + no + s2), LAMBDA d :
         Bind(SpaceRun(s, j + s1 + no + s2 + d), LAMBDA s3 :
         Bind(Len(keyword) + s1 + no + s2 + d + s3, LAMBDA n :
              n + KeyClauseAt(s, low, i + n))))))))

\* the first composer of the list that the text names, 0 when none
FirstComposerIn(s) ==
    Bind(s, LAMBDA v : Least({k \in DOMAIN composers : In(composers[k], v)}))

\* lines 442-459: re.finditer of one keyword over its occurrences occ
RECURSIVE PiecesOfKeyword(_, _, _, _, _)
PiecesOfKeyword(text, low, occ, keyword, acc) ==
    IF occ = {} THEN acc
    ELSE Bind(Least(occ), LAMBDA i :
         Bind(KeywordAt(text, low, i, keyword), LAMBDA n :
         IF n = 0 THEN Bind(occ \ {i}, LAMBDA rest :
                            PiecesOfKeyword(text, low, rest, keyword, acc))
         ELSE Bind(strip(Sub(text, i, i + n - 1)), LAMBDA piece_title :
              Bind(FirstComposerIn(Sub(text, i - 50, i - 1)), LAMBDA k :
              Bind(IF k # 0
                   THEN Append(acc, [composer |-> composers[k], title |-> piece_title])
                   ELSE IF ~HasTitle(acc, piece_title)
                   THEN Append(acc, [composer |-> "Unknown", title |-> piece_title])
                   ELSE acc, LAMBDA acc1 :
              Bind({o \in occ : o >= i + n}, LAMBDA rest :
                   PiecesOfKeyword(text, low, rest, keyword, acc1)))))))

\* lines 438-459, keys being the keywords that occur in the lowered text
RECURSIVE PiecesByKeyword(_, _, _, _, _)
PiecesByKeyword(text, low, keys, k, acc) ==
    IF k > Len(keys) THEN acc
    ELSE Bind(Occurrences(low, keys[k]), LAMBDA occ :
         Bind(PiecesOfKeyword(text, low, occ, keys[k], acc), LAMBDA acc1 :
              PiecesByKeyword(text, low, keys, k + 1, acc1)))

program_keywords == <<"program", "repertoire", "works", "pieces", "music by">>

\* lines 462-473: the composers named within 200 characters of a program
\* keyword
RECURSIVE PiecesByProgram(_, _, _, _)
PiecesByProgram(text, low, k, acc) ==
    IF k > Len(program_keywords) THEN acc
    ELSE Bind(find(low, program_keywords[k]), LAMBDA idx :
         IF idx = 0 THEN PiecesByProgram(text, low, k + 1, acc)
         ELSE Bind(Sub(text, idx, idx + 199), LAMBDA program_text :
              Bind(SelectSeq(composers, LAMBDA c : In(c, program_text)), LAMBDA named :
              Bind(acc \o [i \in DOMAIN named |->
                              [composer |-> named[i], title |-> "TBA"]], LAMBDA acc1 :
                   PiecesByProgram(text, low, k + 1, acc1)))))

TBAPieceText == <<[composer |-> "TBA", title |-> "TBA"]>>

\* lines 401-477: [title, pieces], title being the title of the concert
\* after the extraction
ExtractPieces(text, concert_title) ==
    Bind(lower(text), LAMBDA low :
    Bind(PiecesByComposer(text, Present(composers, text), 1,
                          [title |-> concert_title, pieces |-> <<>>]), LAMBDA a1 :
    Bind(PiecesByKeyword(text, low, Present(piece_keywords, low), 1, a1.pieces),
         LAMBDA p2 :
    Bind(IF p2 # <<>> THEN p2 ELSE PiecesByProgram(text, low, 1, <<>>), LAMBDA p3 :
         [title |-> a1.title, pieces |-> IF p3 # <<>> THEN p3 ELSE TBAPieceText]))))

\* the blocks of a page and their children
Child(tag, class, text) == [tag |-> tag, class |-> class, text |-> text]
Block(tag, class, children) == [tag |-> tag, class |-> class, children |-> children]

\* element.get_text(): the texts of the children one after the other
RECURSIVE JoinTexts(_, _)
JoinTexts(children, k) ==
    IF k > Len(children) THEN "" ELSE children[k].text \o JoinTexts(children, k + 1)

get_text(element) == JoinTexts(element.children, 1)

\* lines 175-184; the children of the blocks are none of these tags
IsConcertElement(b) ==
    /\ b.tag \in {"div", "article", "section", "li"}
    /\ b.class \cap {"concert", "event", "performance", "program", "repertoire",
                     "season", "schedule", "calendar", "listing", "music"} # {}
    /\ b.class \cap {"nav", "menu", "header", "footer", "sidebar", "breadcrumb",
                     "search", "filter", "pagination", "social", "share"} = {}

\* the blocks of a page, each as many times as N counts it
RECURSIVE Repeated(_, _, _)
Repeated(page, N(_), k) ==
    IF k > Len(page) THEN <<>>
    ELSE [i \in 1..N(page[k]) |-> page[k]] \o Repeated(page, N, k + 1)

ChildrenWhere(b, Test(_)) == Cardinality({k \in DOMAIN b.children : Test(b.children[k])})

\* lines 188-193: the headings that name a concert
IsConcertHeading(c) ==
    /\ c.tag \in {"h1", "h2", "h3", "h4"}
    /\ Bind(lower(c.text), LAMBDA low :
            \E w \in {"concert", "symphony", "orchestra", "philharmonic", "recital",
                       "chamber", "quartet", "sonata", "concerto"} : In(w, low))

\* lines 201-203: the strings that hold a date
HasDateString(c) ==
    \E i \in 1..Len(c.text) :
        \/ DatePattern1At(c.text, i) # 0
        \/ DatePattern2At(c.text, i) # 0
        \/ DatePattern3At(c.text, i) # 0

\* Lines 175-251 on a page without tables and links: the blocks selected by
\* class; when there is none, the parent of each concert heading; when
\* there is none either, the parent of the parent of each date string.
ConcertElements(page) ==
    Bind(SelectSeq(page, IsConcertElement), LAMBDA by_class :
    IF by_class # <<>> THEN by_class
    ELSE Bind(Repeated(page, LAMBDA b : ChildrenWhere(b, IsConcertHeading), 1),
              LAMBDA by_heading :
    IF by_heading # <<>> THEN by_heading
    ELSE Repeated(page, LAMBDA b : ChildrenWhere(b, HasDateString), 1)))

navigation_keywords ==
    {"home", "about", "contact", "login", "register", "search",
     "menu", "navigation", "breadcrumb", "social media", "follow us",
     "subscribe", "newsletter", "privacy", "terms", "cookie"}

generic_titles ==
    {"digital concert hall", "calendar", "subscriptions", "vouchers",
     "ticket information", "season highlights", "tours", "cinema", "radio",
     "tv", "home", "about", "contact"}

title_tags == {"h1", "h2", "h3", "h4", "h5", "b", "strong"}

FirstChild(element, Test(_)) ==
    Least({k \in DOMAIN element.children : Test(element.children[k])})

\* lines 282-295: the text of the first child with a title class, else of
\* the first heading or bold child; "" when there is none
TitleOf(element) ==
    Bind(FirstChild(element, LAMBDA c :
            /\ c.tag \in title_tags \cup {"span", "div"}
            /\ c.class \cap {"title", "event", "name", "concert", "heading"} # {}),
         LAMBDA by_class :
    Bind(FirstChild(element, LAMBDA c : c.tag \in title_tags), LAMBDA by_tag :
    IF by_class # 0 THEN strip(element.children[by_class].text)
    ELSE IF by_tag # 0 THEN strip(element.children[by_tag].text)
    ELSE ""))

\* lines 298-300
RejectsTitle(t) ==
    \/ t = ""
    \/ Len(t) < 10
    \/ Bind(lower(t), LAMBDA low : \E g \in generic_titles : In(g, low))

date_indicators == <<"date", "time", "when", "calendar", "schedule">>

\* lines 319-330: the text of the first child that carries a date class,
\* the indicators tried in their order
RECURSIVE DateElemText(_, _)
DateElemText(element, k) ==
    IF k > Len(date_indicators) THEN ""
    ELSE Bind(FirstChild(element, LAMBDA c :
                 /\ c.tag \in {"span", "div", "p", "time"}
                 /\ date_indicators[k] \in c.class), LAMBDA found :
         IF found # 0 THEN strip(element.children[found].text)
         ELSE DateElemText(element, k + 1))

\* lines 302-330
DateTextOf(element, text) ==
    Bind(DateMatch(text), LAMBDA found :
        IF found # "" THEN found ELSE DateElemText(element, 1))

\* a string as the store keeps the strings of a Piece
Runs(s) == [i \in 1..Len(s) |-> [ch |-> Ch(s, i), n |-> 1]]

AsPieces(ps) ==
    [i \in DOMAIN ps |-> [composer |-> Runs(ps[i].composer), title |-> Runs(ps[i].title)]]

\* the arguments of a _save_concert call; the blocks have no link, so that
\* external_url is the base url
TextCall(v, t, date, ps, qs) ==
    [venue_id |-> v, title |-> t, date |-> date, external_url |-> "#",
     performers |-> ps, pieces |-> AsPieces(qs), city |-> NoCity]

\* lines 255-300: is the element skipped, `seen` being processed_elements
SkipsElement(element, content, seen) ==
    \/ Len(content) < 20
    \/ Bind(lower(content), LAMBDA low : \E w \in navigation_keywords : In(w, low))
    \/ \E p \in seen : In(p, content) \/ In(content, p)

\* lines 280-478 for an element that was not skipped: the call it makes
ElementCall(v, element, t) ==
    Bind(get_text(element), LAMBDA text :
    Bind(ExtractPieces(text, TitleOf(element)), LAMBDA x :
        TextCall(v, x.title, ParseDateText(DateTextOf(element, text), t),
                 ExtractPerformers(text), x.pieces)))

\* Lines 253-484, the loop over concert_elements[:15]: the calls of
\* _save_concert it makes, `seen` being processed_elements.  What a save
\* does to the store has no part in what the next element yields.
RECURSIVE ElementLoop(_, _, _, _, _, _)
ElementLoop(v, elements, k, t, seen, calls) ==
    IF k > Len(elements) THEN calls
    ELSE Bind(strip(get_text(elements[k])), LAMBDA content :
         IF SkipsElement(elements[k], content, seen)
         THEN ElementLoop(v, elements, k + 1, t, seen, calls)
         ELSE Bind(seen \cup {content}, LAMBDA seen1 :
              IF RejectsTitle(TitleOf(elements[k]))
              THEN ElementLoop(v, elements, k + 1, t, seen1, calls)
              ELSE Bind(Append(calls, ElementCall(v, elements[k], t)), LAMBDA calls1 :
                        ElementLoop(v, elements, k + 1, t, seen1, calls1))))

ElementCalls(v, page, t) ==
    Bind(ConcertElements(page), LAMBDA els :
        ElementLoop(v, SubSeq(els, 1, MinNat(Len(els), 15)), 1, t, {}, <<>>))

\* rf'{composer}\s*:?\s*([^\n,.;]+)' at an occurrence i of the composer
\* (line 550).  When no title character follows, the group is a blank other
\* than a newline given back by \s*, or the colon given back by :?.
BackupTitleAt(s, i, composer) ==
    Bind(i + Len(composer), LAMBDA j :
    Bind(SpaceRun(s, j), LAMBDA s1 :
    Bind(IF Ch(s, j + s1) = ":" THEN 1 ELSE 0, LAMBDA k :
    Bind(SpaceRun(s, j + s1 + k), LAMBDA s2 :
    Bind(j + s1 + k + s2, LAMBDA g :
    Bind(RunNotOf(NotTitleChars \cup {";"}, s, g), LAMBDA n :
    IF n >= 1 THEN [ok |-> TRUE, group |-> Sub(s, g, g + n - 1)]
    ELSE IF \E p \in (g - s2)..(g - 1) : Ch(s, p) # "\n"
    THEN [ok |-> TRUE, group |-> " "]
    ELSE IF k = 1 THEN [ok |-> TRUE, group |-> ":"]
    ELSE IF \E p \in j..(j + s1 - 1) : Ch(s, p) # "\n"
    THEN [ok |-> TRUE, group |-> " "]
    ELSE NoMatch))))))

BackupTitleSearch(s, composer) ==
    Bind(Least({i \in Occurrences(s, composer) : BackupTitleAt(s, i, composer).ok}),
         LAMBDA i : IF i = 0 THEN NoMatch ELSE BackupTitleAt(s, i, composer))

\* lines 545-555: acc is [title, pieces], `title` being bound to every title
\* of a work that is found
RECURSIVE BackupPieces(_, _, _, _)
BackupPieces(s, named, k, acc) ==
    IF k > Len(named) THEN acc
    ELSE Bind(BackupTitleSearch(s, named[k]), LAMBDA m :
         Bind(IF m.ok
              THEN [title |-> strip(m.group),
                    pieces |-> Append(acc.pieces, [composer |-> named[k],
                                                   title |-> strip(m.group)])]
              ELSE [acc EXCEPT !.pieces =
                       Append(@, [composer |-> named[k], title |-> "TBA"])],
              LAMBDA a1 : BackupPieces(s, named, k + 1, a1)))

\* lines 524-541
BackupPerformers(s) ==
    Bind(lower(s), LAMBDA low :
    Bind(PerformersByRole(s, low, Present(instruments, low), 1, FALSE, <<>>),
         LAMBDA by_role :
    IF by_role # <<>> THEN by_role
    ELSE Bind(SelectSeq(SelectNames(CapitalizedNames(s),
                                    {"concert", "symphony", "orchestra", "hall"}),
                        LAMBDA n : \A k \in DOMAIN composers : composers[k] # n),
              LAMBDA any :
    IF any # <<>> THEN AsPerformers(any, "performer") ELSE TBAPerformerText)))

\* lines 501-563 for the date match m = <<start, length>> of the readable
\* text: the call it makes
BackupCall(v, content, m, t) ==
    Bind(Sub(content, m[1] - 100, m[1] + 299), LAMBDA surrounding_text :
    Bind(RunNotOf({"", "\n", "."}, surrounding_text, 1), LAMBDA n :
    Bind(IF n >= 1 THEN strip(Sub(surrounding_text, 1, n)) ELSE "Classical Concert",
         LAMBDA t0 :
    Bind(BackupPieces(surrounding_text, Present(composers, surrounding_text), 1,
                      [title |-> t0, pieces |-> <<>>]), LAMBDA x :
        TextCall(v, x.title,
                 TryFormats(Sub(content, m[1], m[1] + m[2] - 1), 1, At(t)),
                 BackupPerformers(surrounding_text),
                 IF x.pieces # <<>> THEN x.pieces ELSE TBAPieceText)))))

\* lines 499-571: the calls of the loop over the dates of the readable text
BackupCalls(v, content, t) ==
    Bind(DateMatches(content), LAMBDA ms :
        [k \in DOMAIN ms |-> BackupCall(v, content, ms[k], t)])

\* The saves of a loop and the counts of lines 481 and 567: acc is [db,
\* count, tried, saved], the save raising when its number is in
\* e.save_raises.
RECURSIVE SaveTexts(_, _, _, _)
SaveTexts(calls, k, e, acc) ==
    IF k > Len(calls) THEN acc
    ELSE Bind(IF acc.tried + 1 \in e.save_raises THEN SaveSteps(calls[k]) ELSE 0,
              LAMBDA f :
         Bind([db |-> Saved(acc.db, calls[k], f),
               count |-> acc.count + 1,
               tried |-> acc.tried + 1,
               saved |-> IF SaveResult(acc.db, calls[k], f)
                         THEN acc.saved + 1 ELSE acc.saved], LAMBDA a1 :
              SaveTexts(calls, k + 1, e, a1)))

\* GenericScraper.scrape() once the base page is fetched, `main` being the
\* calls of the loop over the elements and `backup` those of the loop over
\* the readable text
RunText(db, main, backup, e, t, ls) ==
    Bind(SaveTexts(main, 1, e, [db |-> db, count |-> 0, tried |-> 0, saved |-> 0]),
         LAMBDA a1 :
    Bind(IF a1.count = 0 THEN SaveTexts(backup, 1, e, a1) ELSE a1, LAMBDA a2 :
        [db |-> a2.db,
         ret |-> e.commit_ok /\ a2.count > 0,
         raised |-> ~e.commit_ok,
         tried |-> a2.tried, saved |-> a2.saved,
         calls |-> IF a1.count = 0 THEN backup ELSE main,
         last_scraped |-> IF e.commit_ok THEN At(t) ELSE ls]))

\* The calls of the two loops of GenericScraper.scrape() on venue v at clock
\* t, the site answering with the blocks `page` and trafilatura with
\* `content` ("" for None): the loop over the readable text runs only when
\* the loop over the elements counted nothing (line 487).
MainCalls(v, page, t) == ElementCalls(v, page, t)

BackupCallsOf(v, main, content, t) ==
    IF main = <<>> /\ content # "" THEN BackupCalls(v, content, t) ELSE <<>>

\* GenericScraper.scrape(), `main` and `backup` being those calls:
\* [db, ret, raised, tried, saved, calls, last_scraped]
ScrapeText(db, main, backup, e, t, ls) ==
    IF ~e.base_ok
    THEN [db |-> db, ret |-> FALSE, raised |-> FALSE, tried |-> 0, saved |-> 0,
          calls |-> <<>>, last_scraped |-> ls]
    ELSE RunText(db, main, IF e.content = "" THEN <<>> ELSE backup, e, t, ls)

-----------------------------------------------------------------------------
(* Generic venues whose pages are given as text.                           *)

ConcertItem(children) == Block("div", {"concert"}, children)
Heading(text) == Child("h3", {}, text)
DateSpan(text) == Child("span", {"date"}, text)
Paragraph(text) == Child("p", {}, text)

WinterGala(date, conductor, program) ==
    ConcertItem(<<Heading("Winter Gala"), DateSpan(date), Paragraph(conductor),
                  Paragraph(program)>>)

\* the dates on the page of the site "season"
SeasonDates == 16

TwoDigits(n) == Sub(DigitChars, (n \div 10) + 1, (n \div 10) + 1)
                \o Sub(DigitChars, (n % 10) + 1, (n % 10) + 1)

\* a listing of one short block for each day of a month: no block is long
\* enough for the loop over the elements (line 259)
SeasonPage ==
    [k \in 1..SeasonDates |->
        Block("div", {}, <<Paragraph(TwoDigits(k) \o ".03.2026")>>)]

TextSites ==
    {"season", "gala", "gala-lines", "gala-program-first", "gala-stop", "gala-dmy", "gala-iso",
     "gala-short-year", "gala-no-date", "gala-symphony", "gala-short-title",
     "gala-menu", "gala-twice", "gala-teaser", "gala-plain"}

\* the document of a site; "gala" is the block of the concrete scenario
TextPageOf(name) ==
    CASE name = "gala" ->
            <<WinterGala("12/25/2025", "conductor: Jane Doe", "program: Beethoven")>>
      [] name = "season" -> SeasonPage
      [] name = "gala-lines" ->
            <<ConcertItem(<<Heading("Winter Gala\n"), DateSpan("12/25/2025\n"),
                            Paragraph("conductor: Jane Doe\n"),
                            Paragraph("program: Beethoven\n")>>)>>
      [] name = "gala-program-first" ->
            <<ConcertItem(<<Heading("Winter Gala"), DateSpan("12/25/2025"),
                            Paragraph("program: Beethoven"),
                            Paragraph("conductor: Jane Doe")>>)>>
      [] name = "gala-stop" ->
            <<WinterGala("12/25/2025", "conductor: Jane Doe.", "program: Beethoven")>>
      [] name = "gala-dmy" ->
            <<WinterGala("25/12/2025", "conductor: Jane Doe.", "program: Beethoven")>>
      [] name = "gala-iso" ->
            <<WinterGala("2025-12-25", "conductor: Jane Doe.", "program: Beethoven")>>
      [] name = "gala-short-year" ->
            <<WinterGala("12/25/25", "conductor: Jane Doe.", "program: Beethoven")>>
      [] name = "gala-no-date" ->
            <<WinterGala("Christmas Day", "conductor: Jane Doe.", "program: Beethoven")>>
      [] name = "gala-symphony" ->
            <<WinterGala("12/25/2025", "conductor: Jane Doe.",
                         "program: Beethoven: Symphony No. 5")>>
      [] name = "gala-short-title" ->
            <<ConcertItem(<<Heading("Gala"), DateSpan("12/25/2025"),
                            Paragraph("conductor: Jane Doe."),
                            Paragraph("program: Beethoven")>>)>>
      [] name = "gala-menu" ->
            <<Block("div", {"nav", "menu"}, <<Paragraph("Home | Concerts | Contact")>>),
              WinterGala("12/25/2025", "conductor: Jane Doe", "program: Beethoven")>>
      [] name = "gala-teaser" ->
            <<ConcertItem(<<Paragraph("Winter Gala"), DateSpan("12/25/2025")>>),
              WinterGala("12/25/2025", "conductor: Jane Doe", "program: Beethoven")>>
      [] name = "gala-twice" ->
            <<WinterGala("12/25/2025", "conductor: Jane Doe", "program: Beethoven"),
              WinterGala("12/25/2025", "conductor: Jane Doe", "program: Beethoven")>>
      [] OTHER ->
            <<Block("div", {}, <<Heading("Winter Gala"), DateSpan("12/25/2025"),
                                 Paragraph("conductor: Jane Doe"),
                                 Paragraph("program: Beethoven")>>)>>

\* The readable text of a page, taken to be one line for each child of each
\* block.
RECURSIVE Lines(_, _)
Lines(children, k) ==
    IF k > Len(children) THEN ""
    ELSE strip(children[k].text) \o "\n" \o Lines(children, k + 1)

RECURSIVE ReadableText(_, _)
ReadableText(page, k) ==
    IF k > Len(page) THEN ""
    ELSE Lines(page[k].children, 1) \o ReadableText(page, k + 1)

\* What the world does to one run: whether the base fetch returns the
\* document, what trafilatura returns ("" for None), which saves raise,
\* whether the commit of last_scraped succeeds.
TextEnvs(text) ==
    [base_ok : BOOLEAN,
     content : {"", text},
     save_raises : {{}, {1}},
     commit_ok : BOOLEAN]

\* what a run leaves behind for the properties to read
TextRecord(e, r) ==
    [called |-> TRUE, op |-> "scrape_text", site |-> venue[1].name,
     clean |-> e.base_ok /\ e.commit_ok /\ e.save_raises = {},
     fresh |-> concerts = <<>> /\ performers = <<>> /\ pieces = <<>>,
     ret |-> r.ret, raised |-> r.raised, tried |-> r.tried, saved |-> r.saved,
     calls |-> r.calls]

\* scrape_venue(1) on a generic venue
scrape_text ==
    /\ \E page \in {TextPageOf(venue[1].name)} :
       \E main \in {MainCalls(1, page, now)} :
       \E text \in {ReadableText(page, 1)} :
       \E backup \in {BackupCallsOf(1, main, text, now)} :
       \E e \in TextEnvs(text) :
       \E r \in {ScrapeText(DB, main, backup, e, now, venue[1].last_scraped)} :
           /\ Apply(1, r)
           /\ last_scrape' = TextRecord(e, r)
    /\ UNCHANGED <<now, last_save, batch, last_parse, web>>

InitText ==
    /\ \E name \in TextSites : venue = <<VenueRow(name, {}, "generic")>>
    /\ InitTables

NextText == scrape_text

SpecText == InitText /\ [][NextText]_vars

-----------------------------------------------------------------------------
(* Background scrapes side by side.  Each thread has its own session: the  *)
(* lookup of a save reads the committed store, and the rows the save adds  *)
(* are seen by the other threads from its commit on.  A save takes two     *)
(* steps here, its concert lookup and the rest up to the commit.           *)

\* most background threads started in one behaviour of the interleaving
MaxFlights == 2

\* the calls of _save_concert_with_city one pass of a strategy makes
RECURSIVE LoopCalls(_, _, _, _, _, _)
LoopCalls(k, v, items, i, e, t) ==
    IF i > Len(items) THEN <<>>
    ELSE (IF Reaches(k, items[i], i, e, t)
          THEN <<CallOf(k, v, items[i], i, e, t)>> ELSE <<>>)
         \o LoopCalls(k, v, items, i + 1, e, t)

\* the calls of one run of strategy k, the generic pass over the readable
\* text included
RunCalls(k, v, page, e, t) ==
    IF (~e.base_ok /\ BaseFailStops(k))
       \/ (k = "FilharmoniaNarodowaScraper" /\ ~e.db_ok)
    THEN <<>>
    ELSE Bind(LoopCalls(k, v, Capped(k, ItemsOf(k, page, e)), 1, e, t), LAMBDA main :
         IF IsGeneric(k) /\ main = <<>> /\ e.more_ok
         THEN LoopCalls(k, v, page.more, 1, e, t)
         ELSE main)

\* lines 77-105 with the result `hit` of the lookup of lines 70-74 (0: None)
UpsertFound(db, c, hit) ==
    IF hit # 0
    THEN [db EXCEPT
            !.concerts[hit].title = c.title,
            !.concerts[hit].date = c.date,
            !.concerts[hit].city = IF c.city # NoCity THEN c.city ELSE @,
            !.concert_performer = Clear(@, hit),
            !.concert_piece = Clear(@, hit)]
    ELSE [db EXCEPT
            !.concerts = Append(@, [title |-> c.title, date |-> c.date,
                                    venue_id |-> c.venue_id,
                                    external_url |-> c.external_url,
                                    city |-> c.city])]

\* the committed store after lines 77-149
SavedFound(db, c, hit) ==
    Bind(IF hit # 0 THEN hit ELSE Len(db.concerts) + 1, LAMBDA cid :
        AddPieces(AddPerformers(UpsertFound(db, c, hit), cid, c.performers),
                  cid, c.pieces))

\* the environments of a run whose saves fail one by one in the steps
FlightEnvs(k, page) == {e \in Envs(k, page) : e.save_raises = {}}

NewFlight(id) ==
    [venue_id |-> id, pc |-> "begin", total_items |-> 0, todo |-> <<>>,
     ret |-> FALSE, raised |-> FALSE, calls |-> <<>>, hit |-> 0, count |-> 0,
     commit_ok |-> TRUE]

\* api_scrape_venue(venue_id)
api_scrape_venue_flight ==
    /\ Len(threads) < MaxFlights
    /\ \E id \in DOMAIN venue \cup {NoSuchVenue} :
         /\ scraping_progress' = Put(id, StartingEntry)
         /\ threads' = Append(threads, NewFlight(id))
    /\ UNCHANGED <<venue, store, last_read>>
    /\ UnchangedByWeb

\* original_scrape() up to its first save: the fetches and the extraction
flight_extract(n) ==
    LET th == threads[n]
        v  == VenueGet(venue, th.venue_id)
    IN
    /\ th.pc = "scrape"
    /\ \E k \in {get_scraper(venue[v])} :
       \E e \in FlightEnvs(k, PageOf(venue[v].name)) :
       \E calls \in {RunCalls(k, v, PageOf(venue[v].name), e, now)} :
         threads' = [threads EXCEPT
            ![n].pc = IF (~e.base_ok /\ BaseFailStops(k))
                         \/ (k = "FilharmoniaNarodowaScraper" /\ ~e.db_ok)
                      THEN "report"
                      ELSE IF calls = <<>> THEN "finish" ELSE "lookup",
            ![n].todo = ProgressUpdates(k, PageOf(venue[v].name), e, now),
            ![n].calls = calls,
            ![n].commit_ok = e.commit_ok]
    /\ UNCHANGED <<venue, store, scraping_progress, last_read>>
    /\ UnchangedByWeb

\* lines 70-74 of a save: the concert lookup
flight_lookup(n) ==
    LET th == threads[n]
        c  == Head(th.calls)
    IN
    /\ th.pc = "lookup"
    /\ threads' = [threads EXCEPT
          ![n].pc = "commit",
          ![n].hit = FindConcert(DB, c.title, c.date, c.venue_id)]
    /\ UNCHANGED <<venue, store, scraping_progress, last_read>>
    /\ UnchangedByWeb

\* lines 76-155 of a save and the strategy's count: the commit, or an
\* exception and the rollback
flight_commit(n) ==
    LET th == threads[n]
        c  == Head(th.calls)
        k  == get_scraper(venue[VenueGet(venue, th.venue_id)])
    IN
    /\ th.pc = "commit"
    /\ \E ok \in IF c.date = NoDate THEN {FALSE} ELSE BOOLEAN :
       \E db \in {IF ok THEN SavedFound(DB, c, th.hit) ELSE DB} :
         /\ Len(db.concerts) <= MaxRows
         /\ concerts' = db.concerts
         /\ performers' = db.performers
         /\ pieces' = db.pieces
         /\ concert_performer' = db.concert_performer
         /\ concert_piece' = db.concert_piece
         /\ threads' = [threads EXCEPT
               ![n].pc = IF Tail(th.calls) = <<>> THEN "finish" ELSE "lookup",
               ![n].calls = Tail(th.calls),
               ![n].count = Count(k, th.count, ok)]
    /\ UNCHANGED <<venue, scraping_progress, last_read>>
    /\ UnchangedByWeb

\* the end of original_scrape(): last_scraped and the return value
flight_finish(n) ==
    LET th == threads[n]
        v  == VenueGet(venue, th.venue_id)
        k  == get_scraper(venue[v])
        touch == Touches(k, th.count)
    IN
    /\ th.pc = "finish"
    /\ venue' = IF touch /\ th.commit_ok
                THEN [venue EXCEPT ![v].last_scraped = At(now)] ELSE venue
    /\ threads' = [threads EXCEPT
          ![n].pc = "report",
          ![n].ret = (~touch \/ th.commit_ok) /\ th.count > 0,
          ![n].raised = touch /\ ~th.commit_ok /\ IsGeneric(k)]
    /\ UNCHANGED <<store, scraping_progress, last_read>>
    /\ UnchangedByWeb

NextRace ==
    \/ api_scrape_venue_flight
    \/ \E n \in DOMAIN threads : thread_running(n)
    \/ \E n \in DOMAIN threads : thread_wrapper(n)
    \/ \E n \in DOMAIN threads : flight_extract(n)
    \/ \E n \in DOMAIN threads : flight_lookup(n)
    \/ \E n \in DOMAIN threads : flight_commit(n)
    \/ \E n \in DOMAIN threads : flight_finish(n)
    \/ \E n \in DOMAIN threads : thread_update(n)
    \/ \E n \in DOMAIN threads : thread_result(n)

SpecRace == InitScrape /\ [][NextRace]_vars

-----------------------------------------------------------------------------
(* The time fragments of the two date normalizers, read as text.           *)

\* s.replace(sub, '')
RECURSIVE Without(_, _)
Without(s, sub) ==
    Bind(find(s, sub), LAMBDA i :
        IF i = 0 THEN s
        ELSE Sub(s, 1, i - 1) \o Without(From(s, i + Len(sub)), sub))

\* (\d{1,2}):(\d{2}) at position i: the length of the first group, 0 when
\* the pattern does not match there
TimePatternAt(s, i) ==
    IF /\ IsDigit(Ch(s, i)) /\ IsDigit(Ch(s, i + 1)) /\ Ch(s, i + 2) = ":"
       /\ IsDigit(Ch(s, i + 3)) /\ IsDigit(Ch(s, i + 4))
    THEN 2
    ELSE IF /\ IsDigit(Ch(s, i)) /\ Ch(s, i + 1) = ":"
            /\ IsDigit(Ch(s, i + 2)) /\ IsDigit(Ch(s, i + 3))
    THEN 1
    ELSE 0

TimeFragment(kind, h, m) == [kind |-> kind, h |-> h, m |-> m]

\* lines 772-784: what _parse_filharmonia_date reads in time_text, "" being
\* None or the empty string
filharmonia_time_text(text) ==
    IF text = "" THEN TimeFragment("none", 0, 0)
    ELSE Bind(Least({i \in 1..Len(text) : TimePatternAt(text, i) # 0}), LAMBDA i :
         IF i = 0 THEN TimeFragment("text", 0, 0)
         ELSE Bind(TimePatternAt(text, i), LAMBDA n :
              TimeFragment("hm", Num(Sub(text, i, i + n - 1)),
                           Num(Sub(text, i + n + 1, i + n + 2)))))

\* what the raising of int() and a negative number come to in the end
NoInt == 0 - 1

\* int(s) for the texts of a time: white space around an optional sign and
\* digits
IntOf(s) ==
    Bind(strip(s), LAMBDA v :
    Bind(IF Ch(v, 1) \in {"+", "-"} THEN From(v, 2) ELSE v, LAMBDA ds :
        IF ds = "" \/ DigitRun(ds, 1) # Len(ds) THEN NoInt
        ELSE IF Ch(v, 1) = "-" /\ Num(ds) # 0 THEN NoInt
        ELSE Num(ds)))

\* lines 2099-2109: what _parse_nfm_date reads in time_text; "colon" when
\* the unpacking of the split or int() raises
nfm_time_text(text) ==
    Bind(strip(Without(Without(text, "PM"), "AM")), LAMBDA parts :
    Bind(Occurrences(parts, ":"), LAMBDA cs :
        IF cs = {} THEN TimeFragment("text", 0, 0)
        ELSE IF Cardinality(cs) # 1 THEN TimeFragment("colon", 0, 0)
        ELSE Bind(IntOf(Sub(parts, 1, Least(cs) - 1)), LAMBDA h :
             Bind(IntOf(From(parts, Least(cs) + 1)), LAMBDA m :
                IF h = NoInt \/ m = NoInt THEN TimeFragment("colon", 0, 0)
                ELSE TimeFragment("hm",
                                  IF In("PM", text) /\ h # 12 THEN h + 12
                                  ELSE IF In("AM", text) /\ h = 12 THEN 0
                                  ELSE h,
                                  m)))))

\* datetime(...) and datetime.replace(...) raise on an hour or a minute out
\* of range, and the normalizer returns None
TimeRaises(time) == time.kind = "hm" /\ (time.h > 23 \/ time.m > 59)

\* _parse_filharmonia_date(date_text, time_text) at clock t, the time as text
ParseFilharmoniaText(date, text, t) ==
    Bind(filharmonia_time_text(text), LAMBDA time :
        IF date.kind = "dm" /\ TimeRaises(time) THEN NoResult
        ELSE ParseFilharmonia(date, time, t))

\* _parse_nfm_date(date_text, time_text) at clock t, the time as text
ParseNFMText(date, text, t) ==
    Bind(nfm_time_text(text), LAMBDA time :
        IF TimeRaises(time) THEN NoResult ELSE ParseNFM(date, time, t))

\* the texts of the time element
TimeStrings ==
    {"", "18:00", "18.00", "9:05", "09.05", "7:30 PM", "12:15 AM", "19:xx",
     "godz. 18:00", "18:00:00", "24:00"}

TimeRecord(fn, date, text, result) ==
    [called |-> TRUE, fn |-> fn, date |-> date, text |-> text, now |-> now,
     result |-> result]

\* a call of _parse_filharmonia_date from FilharmoniaNarodowaScraper.scrape
parse_filharmonia_text ==
    /\ \E date \in DateTexts, text \in TimeStrings :
         last_parse' = TimeRecord("filharmonia", date, text,
                                  ParseFilharmoniaText(date, text, now))
    /\ UnchangedByParse

\* a call of _parse_nfm_date from NFMWroclawScraper.scrape
parse_nfm_text ==
    /\ \E date \in DateTexts, text \in TimeStrings :
         last_parse' = TimeRecord("nfm", date, text, ParseNFMText(date, text, now))
    /\ UnchangedByParse

NextTimes ==
    \/ parse_filharmonia_text
    \/ parse_nfm_text
    \/ Tick

SpecTimes == Init /\ [][NextTimes]_vars

-----------------------------------------------------------------------------
(* What the listing strategies pass to the save from the listing node and  *)
(* from the detail page.  A detail page is [title, performers, pieces] as  *)
(* _get_concert_details returns it, NoDetails for None; only NOSPR's       *)
(* reads a title (the h1 of the page).                                     *)

NoDetails == [fetched |-> FALSE, title |-> "", performers |-> <<>>, pieces |-> <<>>]

Details(title, ps, qs) ==
    [fetched |-> TRUE, title |-> title, performers |-> ps, pieces |-> qs]

\* the dict a strategy's _get_concert_details builds from a detail page
DetailsOf(k, page) ==
    IF ~page.fetched THEN NoDetails
    ELSE IF k = "NOSPRKatowiceScraper" THEN page
    ELSE [page EXCEPT !.title = ""]

\* s.split(sep)
RECURSIVE SplitOn(_, _)
SplitOn(s, sep) ==
    Bind(find(s, sep), LAMBDA i :
        IF i = 0 THEN <<s>>
        ELSE <<Sub(s, 1, i - 1)>> \o SplitOn(From(s, i + Len(sep)), sep))

\* lines 1813-1823: the role of a part of the title; the capitalized names
\* are looked for in the lowered part
PartRole(part) ==
    Bind(lower(part), LAMBDA low :
        IF In("conductor", low)
           \/ \E name \in {"Alsop", "Foster", "Wit", "Liebreich"} : In(name, low)
        THEN "conductor"
        ELSE IF \E w \in {"piano", "violin", "cello", "flute", "trumpet"} : In(w, low)
        THEN "soloist"
        ELSE IF In("orchestra", low) \/ In("nospr", low) THEN "orchestra"
        ELSE "performer")

\* lines 1808-1828: the performers NOSPR reads in the title when it has no
\* details
RECURSIVE TitleParts(_, _)
TitleParts(parts, k) ==
    IF k > Len(parts) THEN <<>>
    ELSE Bind(strip(parts[k]), LAMBDA part :
         (IF Len(part) > 3 THEN <<[name |-> part, role |-> PartRole(part)]>> ELSE <<>>)
         \o TitleParts(parts, k + 1))

TitlePerformers(title) ==
    IF In("/", title) THEN TitleParts(SplitOn(title, "/"), 1) ELSE <<>>

\* the title, performers and pieces a listing strategy passes to
\* _save_concert_with_city for a listing node with this title
SavedFields(k, title, details) ==
    [title |-> title,
     performers |-> IF details.fetched THEN details.performers
                    ELSE IF k = "NOSPRKatowiceScraper" THEN TitlePerformers(title)
                    ELSE <<>>,
     pieces |-> IF details.fetched THEN details.pieces ELSE <<>>]

ListingStrategies ==
    {"FilharmoniaNarodowaScraper", "NOSPRKatowiceScraper", "NFMWroclawScraper"}

ListingTitles == {"Gala", "Alsop / NOSPR", "Recital / Jan Kowalski, piano"}

DetailPages ==
    {NoDetails}
    \cup {Details(title, ps, qs) : title \in {"", "Gala", "Winter Gala 2026"},
                                   ps \in {<<>>, Doe}, qs \in {<<>>, Opus}}

\* one item of a listing strategy from its title to the call of the save
merge_details ==
    /\ \E k \in ListingStrategies, title \in ListingTitles, page \in DetailPages :
         last_parse' = [called |-> TRUE, strategy |-> k, title |-> title,
                        page |-> page, details |-> DetailsOf(k, page),
                        saved |-> SavedFields(k, title, DetailsOf(k, page))]
    /\ UnchangedByParse

NextMerge == merge_details

SpecMerge == Init /\ [][NextMerge]_vars

-----------------------------------------------------------------------------
(* get_scraper on venue rows whose URL is given as text.                   *)

\* the domains get_scraper looks for, in the order of its tests
known_domains ==
    <<"filharmonia.pl", "nfm.wroclaw.pl", "nospr.org.pl", "filharmoniakrakow.pl",
      "filharmonia.gda.pl">>

\* the domains d with `d in venue.url.lower()`
DomainsIn(url) ==
    Bind(lower(url), LAMBDA low :
        {known_domains[k] : k \in {n \in DOMAIN known_domains :
                                       In(known_domains[n], low)}})

\* get_scraper(venue) on a row holding the URL as text
ScraperOf(row) == get_scraper([row EXCEPT !.url = DomainsIn(row.url)])

\* scraper.is_symphonic of the instance returned (lines 2874-2879)
IsSymphonic(row) ==
    Bind(lower(row.url), LAMBDA low :
        In("filharmonia.pl", low) /\ In("koncert-symfoniczny", low))

VenueUrls ==
    {"https://example.org/concerts",
     "https://www.filharmonia.pl/repertuar",
     "https://filharmonia.pl/koncert-symfoniczny",
     "https://WWW.NFM.WROCLAW.PL/en",
     "https://nospr.org.pl/pl/kalendarz",
     "https://filharmoniakrakow.pl/",
     "https://www.Filharmonia.Gda.pl/",
     "https://nospr.org.pl/?from=filharmonia.pl",
     "https://filharmonia.example.pl/nfm"}

ScraperTypes ==
    {"generic", "classical", "filharmonia_narodowa", "nfm_wroclaw",
     "nospr_katowice", "cracow_philharmonic", "filharmonia_baltycka",
     "symphony", ""}

\* scrape_venue up to the strategy it obtained (lines 2896-2902)
select_scraper ==
    /\ \E row \in {venue[1]} :
       \E k \in {ScraperOf(row)} :
         last_scrape' = [called |-> TRUE, op |-> "get_scraper", url |-> row.url,
                         scraper_type |-> row.scraper_type, scraper |-> k,
                         is_symphonic |-> IsSymphonic(row)]
    /\ UNCHANGED <<venue, store, now, last_save, batch, last_parse, web>>

InitSelect ==
    /\ \E url \in VenueUrls, tag \in ScraperTypes :
         venue = <<VenueRow("site", url, tag)>>
    /\ InitTables

NextSelect == select_scraper

SpecSelect == InitSelect /\ [][NextSelect]_vars

-----------------------------------------------------------------------------
(* Properties of the upsert, checked under Spec.                           *)

PerformersOf(cid) == {performers[i] : i \in Linked(concert_performer, cid)}
PiecesOf(cid) == {pieces[i] : i \in Linked(concert_piece, cid)}

\* C2: after a save that returned True and matched an existing Concert, the
\* performers of that concert are exactly the (name, role) pairs of the call
\* and its pieces exactly the truncated (title, composer) pairs of the call.
C2_AuthoritativeOverwrite ==
    (last_save.called /\ last_save.ok /\ last_save.matched) =>
        /\ PerformersOf(last_save.concert_id) = last_save.performers
        /\ PiecesOf(last_save.concert_id) = last_save.pieces

\* the only concert had both performers created by its earlier saves; the
\* matching save that named one of them left only that one associated
C2_Witness ==
    /\ last_save.called /\ last_save.ok /\ last_save.matched
    /\ Len(concerts) = 1 /\ Len(performers) = 2
    /\ Cardinality(last_save.performers) = 1
    /\ PerformersOf(last_save.concert_id) = last_save.performers

\* C3: there is at most one Performer row for each (name, role) pair, and
\* every pair a successful save named has its own row, so one name saved
\* under two roles has two rows.
C3_PerformerIdentity ==
    /\ \A i, j \in DOMAIN performers : performers[i] = performers[j] => i = j
    /\ (last_save.called /\ last_save.ok) =>
          \A pd \in last_save.performers :
              Cardinality({i \in DOMAIN performers : performers[i] = pd}) = 1

\* one name under two roles is two rows, and the first row is shared by the
\* concerts of the two venues
C3_Witness ==
    /\ Len(performers) = 2
    /\ performers[1].name = performers[2].name
    /\ performers[1].role # performers[2].role
    /\ Len(concerts) = 2
    /\ concerts[1].venue_id # concerts[2].venue_id
    /\ BagIn(<<1, 1>>, concert_performer)
    /\ BagIn(<<2, 1>>, concert_performer)

\* C4: every Piece row has title and composer of at most 255 characters, and
\* each truncated (title, composer) a successful save named has exactly one
\* row, whatever over-long inputs it came from.
C4_TruncationInvariant ==
    /\ \A i \in DOMAIN pieces :
          StrLen(pieces[i].title) <= PieceLimit /\ StrLen(pieces[i].composer) <= PieceLimit
    /\ (last_save.called /\ last_save.ok) =>
          \A t \in last_save.pieces :
              Cardinality({i \in DOMAIN pieces : pieces[i] = t}) = 1

\* a save of two different over-long inputs that agree on their first 255
\* characters, after an earlier save had created the row
C4_Witness ==
    /\ last_save.called /\ last_save.ok /\ last_save.collide /\ last_save.matched
    /\ Len(pieces) = 1
    /\ StrLen(pieces[1].title) = PieceLimit /\ StrLen(pieces[1].composer) = PieceLimit
    /\ BagIn(<<last_save.concert_id, 1>>, concert_piece)

\* C5: each (concert, performer) pair and each (concert, piece) pair has at
\* most one association row.
C5_AssociationIdempotence ==
    /\ \A p \in BagToSet(concert_performer) : CopiesIn(p, concert_performer) <= 1
    /\ \A p \in BagToSet(concert_piece) : CopiesIn(p, concert_piece) <= 1

\* a save that named one tuple twice, on a concert that was saved before
C5_Witness ==
    /\ last_save.called /\ last_save.ok /\ last_save.repeats /\ last_save.matched
    /\ RowsOf(concert_performer, last_save.concert_id)
         \cup RowsOf(concert_piece, last_save.concert_id) # {}

\* C6: a call that raised returned False and left the committed store as it
\* was before the call.
C6_UpsertAtomicity ==
    [][(last_save'.called /\ ~last_save'.ok) => store' = store]_vars

\* a call that raised after its first steps had written, on a store that
\* holds rows
C6_Witness ==
    /\ last_save.called /\ ~last_save.ok /\ last_save.partial
    /\ Len(concerts) >= 1 /\ Len(performers) >= 1

-----------------------------------------------------------------------------
(* Properties of the strategies and of scrape_venue, checked under         *)
(* SpecScrape.                                                             *)

\* C1: a strategy run twice in a row on an unchanged document, nothing
\* failing in either run, leaves as many Concert rows after the second run as
\* after the first, also for items whose date does not parse or has no year.
C1_IdempotentRescrape ==
    (last_scrape.called /\ last_scrape.rerun) => last_scrape.grew = 0

\* C7: scrape_venue returns True exactly when at least one save of the run
\* returned True.
C7_TrueIffSaved ==
    (last_scrape.called /\ last_scrape.found /\ ~last_scrape.raised)
        => (last_scrape.ret <=> last_scrape.saved > 0)

\* C8: scrape_venue with an id that has no Venue row returns False, selects no
\* strategy, fetches nothing and changes no stored row.
C8_VenueNotFound ==
    [][(last_scrape'.called /\ ~last_scrape'.found)
         => /\ ~last_scrape'.ret
            /\ ~last_scrape'.raised
            /\ last_scrape'.strategy = "none"
            /\ last_scrape'.fetches = 0
            /\ store' = store
            /\ venue' = venue]_vars

C8_Witness ==
    /\ last_scrape.called /\ ~last_scrape.found
    /\ last_scrape.venue_id = NoSuchVenue
    /\ concerts # <<>>

\* C9: when the fetch of the venue's base URL fails, scrape_venue returns
\* False and raises nothing, whatever the strategy.
C9_FetchFailure ==
    (last_scrape.called /\ last_scrape.found /\ ~last_scrape.base_ok)
        => (~last_scrape.ret /\ ~last_scrape.raised)

\* C11: a scrape changes the venue's last_scraped only when it found at least
\* one concert; after a failed base fetch or with no concert extracted the
\* timestamp stays as it was, whatever the strategy.
C11_LastScrapedOnlyOnFind ==
    (last_scrape.called /\ last_scrape.touched) => last_scrape.ret

\* C12: scrape_venue on an existing venue returns a boolean and raises
\* nothing, whatever fails inside the strategy.
C12_NoExceptionEscapes ==
    (last_scrape.called /\ last_scrape.found) => ~last_scrape.raised

\* C13: a save whose external_url is a per-concert link matches the Concert
\* row of the same (external_url, venue) even when title or date differ, so
\* no two Concert rows of a venue carry the same per-concert link.
C13_LookupByUrl ==
    \A i, j \in DOMAIN concerts :
        (/\ concerts[i].external_url # "#"
         /\ concerts[i].external_url = concerts[j].external_url
         /\ concerts[i].venue_id = concerts[j].venue_id) => i = j

\* C16: no save and no scrape removes a Concert, Performer or Piece row: every
\* step keeps the rows there are, under the ids they have.
C16_NeverDeletes ==
    [][/\ Len(concerts') >= Len(concerts)
       /\ Len(performers') >= Len(performers)
       /\ SubSeq(performers', 1, Len(performers)) = performers
       /\ Len(pieces') >= Len(pieces)
       /\ SubSeq(pieces', 1, Len(pieces)) = pieces]_vars

\* a scrape matched a stored concert and rebuilt its associations as empty,
\* the Performer and Piece rows staying
C16_Witness ==
    /\ last_scrape.called /\ last_scrape.saved > 0 /\ last_scrape.grew = 0
    /\ performers # <<>> /\ pieces # <<>>
    /\ concert_performer = EmptyBag /\ concert_piece = EmptyBag

-----------------------------------------------------------------------------
(* Properties of scrape_all_venues, checked under SpecBatch.               *)

-----------------------------------------------------------------------------
(* Properties of the date normalizers, checked under SpecDates.            *)

\* the year a normalizer put on a day.month fragment
YearGiven == YearOf(last_parse.result.day)

\* C14: for a day.month fragment without a year both normalizers give the
\* current year when that day of the current year is not before now, the next
\* year when it is before now.
C14_RollForward ==
    (/\ last_parse.called
     /\ last_parse.date.kind = "dm"
     /\ last_parse.result.ok)
        => YearGiven = IF last_parse.date.d < DayOf(last_parse.now)
                       THEN YearOf(last_parse.now) + 1
                       ELSE YearOf(last_parse.now)

\* a day.month fragment normalized without a time fragment that parses
NoTimeCase ==
    /\ last_parse.called
    /\ last_parse.date.kind = "dm"
    /\ last_parse.time.kind # "hm"

\* C15 as stated: without a time fragment that parses, the result of either
\* normalizer has the time 19:30.
C15_DefaultEvening ==
    (NoTimeCase /\ last_parse.result.ok) => last_parse.result.time = <<19, 30>>

\* C15: without a time fragment that parses, the result has the normalizer's
\* own default time: 19:30 from _parse_filharmonia_date, 19:00 from
\* _parse_nfm_date, which returns None when the fragment has a colon and is
\* not H:MM.
C15_DefaultPerNormalizer ==
    NoTimeCase =>
        /\ last_parse.fn = "filharmonia" =>
              (last_parse.result.ok /\ last_parse.result.time = <<19, 30>>)
        /\ last_parse.fn = "nfm" =>
              IF last_parse.time.kind = "colon" THEN ~last_parse.result.ok
              ELSE last_parse.result.ok /\ last_parse.result.time = <<19, 0>>

C15_Witness ==
    /\ NoTimeCase
    /\ last_parse.fn = "nfm"
    /\ last_parse.time.kind = "none"
    /\ last_parse.result.time = <<19, 0>>

-----------------------------------------------------------------------------
(* Properties of the progress map, checked under SpecProgress.             *)

\* C17: the status of every progress entry is one of starting, running,
\* completed, error; a read for a venue id no scrape was started for returns
\* not_found with current 0, total 0 and no error, and creates no entry.
C17_ProgressRead ==
    [][/\ \A id \in DOMAIN scraping_progress' :
            scraping_progress'[id].status
                \in {"starting", "running", "completed", "error"}
       /\ last_read' # last_read =>
            /\ scraping_progress' = scraping_progress
            /\ ~last_read'.started =>
                  last_read'.progress = [status |-> "not_found", current |-> 0,
                                         total |-> 0, error |-> "None"]]_vars

\* a read for an id without entry while another venue's scrape has completed
C17_Witness ==
    /\ last_read.called /\ ~last_read.started
    /\ last_read.progress.status = "not_found"
    /\ last_read.venue_id \notin DOMAIN scraping_progress
    /\ \E id \in DOMAIN scraping_progress : scraping_progress[id].status = "completed"

-----------------------------------------------------------------------------
(* Properties of the generic strategy on page texts, checked under         *)
(* SpecText.                                                               *)

\* C18: a clean generic scrape, into an empty store, of the page whose only
\* concert block is the Winter Gala block (heading "Winter Gala", date span
\* 12/25/2025, "conductor: Jane Doe", "program: Beethoven") leaves exactly
\* one Concert "Winter Gala" dated 2025-12-25, exactly one Performer
\* ("Jane Doe", "conductor") and exactly one Piece by "Beethoven"
C18_WinterGala ==
    (/\ last_scrape.called
     /\ last_scrape.site = "gala"
     /\ last_scrape.clean /\ last_scrape.fresh)
        => /\ Len(concerts) = 1
           /\ concerts[1].title = "Winter Gala"
           /\ concerts[1].date = <<"ymd", 2025, 12, 25>>
           /\ performers = <<[name |-> "Jane Doe", role |-> "conductor"]>>
           /\ Len(pieces) = 1
           /\ pieces[1].composer = Runs("Beethoven")

-----------------------------------------------------------------------------
(* Properties of the strategy selection, checked under SpecSelect.         *)

\* the strategy dedicated to a known domain
DedicatedTo(d) ==
    CASE d = "filharmonia.pl" -> "FilharmoniaNarodowaScraper"
      [] d = "nfm.wroclaw.pl" -> "NFMWroclawScraper"
      [] d = "nospr.org.pl" -> "NOSPRKatowiceScraper"
      [] d = "filharmoniakrakow.pl" -> "CracowPhilharmonicScraper"
      [] d = "filharmonia.gda.pl" -> "FilharmoniaBaltyckaScraper"

\* the strategy a configured tag names, the generic one for an unknown tag
NamedBy(tag) ==
    CASE tag = "classical" -> "ClassicalMusicScraper"
      [] tag = "filharmonia_narodowa" -> "FilharmoniaNarodowaScraper"
      [] tag = "nfm_wroclaw" -> "NFMWroclawScraper"
      [] tag = "nospr_katowice" -> "NOSPRKatowiceScraper"
      [] tag = "cracow_philharmonic" -> "CracowPhilharmonicScraper"
      [] tag = "filharmonia_baltycka" -> "FilharmoniaBaltyckaScraper"
      [] OTHER -> "GenericScraper"

Strategies ==
    {"GenericScraper", "ClassicalMusicScraper", "FilharmoniaNarodowaScraper",
     "NFMWroclawScraper", "NOSPRKatowiceScraper", "CracowPhilharmonicScraper",
     "FilharmoniaBaltyckaScraper"}

\* C19: get_scraper returns exactly one strategy for every venue; when the
\* venue URL contains known venue domains it is the strategy dedicated to the
\* first of them in the order of known_domains, whatever the configured tag;
\* when it contains none it is the strategy the tag names, and the generic
\* strategy for a tag that names none.
C19_SelectionOrder ==
    (last_scrape.called /\ last_scrape.op = "get_scraper") =>
        LET low == lower(last_scrape.url)
            hits == {n \in DOMAIN known_domains : In(known_domains[n], low)}
        IN /\ last_scrape.scraper \in Strategies
           /\ hits # {} =>
                last_scrape.scraper = DedicatedTo(known_domains[Least(hits)])
           /\ hits = {} =>
                last_scrape.scraper = NamedBy(last_scrape.scraper_type)

\* a URL of a known domain, in upper case, under a tag that names another
\* strategy
C19_Witness ==
    /\ last_scrape.called /\ last_scrape.op = "get_scraper"
    /\ last_scrape.url = "https://WWW.NFM.WROCLAW.PL/en"
    /\ last_scrape.scraper_type = "nospr_katowice"
    /\ last_scrape.scraper = "NFMWroclawScraper"

-----------------------------------------------------------------------------
(* Properties of the per-run cap, checked under SpecText.                  *)

\* C20: in one run of the generic strategy the number of candidates passed
\* to _save_concert is at most 15, whether they come from the loop over the
\* elements or from the loop over the readable text.
C20_PerRunCap ==
    (last_scrape.called /\ last_scrape.op = "scrape_text") =>
        last_scrape.tried <= CapOf(get_scraper(venue[1]))

-----------------------------------------------------------------------------
(* Properties of the date fragments no normalizer parses, checked under    *)
(* SpecScrape.                                                             *)

\* the candidates of a listing that carry a title and a date fragment no
\* parsing step understands
Unparseable(k, page) ==
    {i \in DOMAIN Capped(k, page.items) :
        page.items[i].title # "" /\ page.items[i].date.kind = "none"}

\* C21: a candidate whose date fragment no parsing step understands is not
\* dropped: after a scrape in which every fetch, save and commit succeeded,
\* the venue has a Concert row for each such candidate of its listing.
C21_UnparseableDateKept ==
    (last_scrape.called /\ last_scrape.found /\ last_scrape.clean) =>
        \A i \in Unparseable(last_scrape.strategy,
                             PageOf(venue[last_scrape.venue_id].name)) :
            \E c \in DOMAIN concerts :
                /\ concerts[c].venue_id = last_scrape.venue_id
                /\ concerts[c].title =
                       PageOf(venue[last_scrape.venue_id].name).items[i].title

-----------------------------------------------------------------------------
(* Properties of the time merge, checked under SpecTimes.                  *)

\* a text of the shape HH:MM or HH.MM on the 24-hour clock
IsClockText(s) ==
    /\ Len(s) = 5
    /\ DigitRun(s, 1) = 2 /\ Ch(s, 3) \in {":", "."} /\ DigitRun(s, 4) = 2
    /\ Num(Sub(s, 1, 2)) <= 23 /\ Num(Sub(s, 4, 5)) <= 59

ClockOf(s) == <<Num(Sub(s, 1, 2)), Num(Sub(s, 4, 5))>>

\* the result of the same call without a time fragment
WithoutTime ==
    IF last_parse.fn = "nfm"
    THEN ParseNFMText(last_parse.date, "", last_parse.now)
    ELSE ParseFilharmoniaText(last_parse.date, "", last_parse.now)

\* C22: when the time fragment has the shape HH:MM or HH.MM, the hour and
\* minute of the timestamp a normalizer returns for a day.month date are
\* those of the fragment, and its date is the one it returns without a time
\* fragment.
C22_TimeMerge ==
    (/\ last_parse.called
     /\ last_parse.date.kind = "dm"
     /\ last_parse.result.ok
     /\ IsClockText(last_parse.text))
        => /\ last_parse.result.time = ClockOf(last_parse.text)
           /\ last_parse.result.day = WithoutTime.day

-----------------------------------------------------------------------------
(* Properties of the detail fetches, checked under SpecScrape.             *)

\* the Concert rows of a venue with a title
RowsTitled(rows, v, title) ==
    {c \in DOMAIN rows : rows[c].venue_id = v /\ rows[c].title = title}

\* C23: a scrape performs no save for a concert whose detail page it failed
\* to fetch: the step adds no Concert row for it, and a row it already had
\* keeps its performers and its pieces.
C23_DetailFailureSkips ==
    [][last_scrape'.called =>
         \A title \in last_scrape'.detail_failed :
            /\ RowsTitled(concerts', last_scrape'.venue_id, title)
                   = RowsTitled(concerts, last_scrape'.venue_id, title)
            /\ \A c \in RowsTitled(concerts, last_scrape'.venue_id, title) :
                  /\ Linked(concert_performer', c) = Linked(concert_performer, c)
                  /\ Linked(concert_piece', c) = Linked(concert_piece, c)]_vars

-----------------------------------------------------------------------------
(* Properties of the listing and detail values, checked under SpecMerge.   *)

\* C24: for a field the listing node and the fetched detail page both give,
\* the value passed to the save is the detail page's when that is not empty:
\* the title of the details when the strategy read one, their performers and
\* their pieces; without a detail title the listing title is saved.
C24_DetailPrecedence ==
    last_parse.called =>
        /\ (last_parse.details.fetched /\ last_parse.details.title # "")
              => last_parse.saved.title = last_parse.details.title
        /\ (last_parse.details.fetched /\ last_parse.details.performers # <<>>)
              => last_parse.saved.performers = last_parse.details.performers
        /\ (last_parse.details.fetched /\ last_parse.details.pieces # <<>>)
              => last_parse.saved.pieces = last_parse.details.pieces
        /\ (~last_parse.details.fetched \/ last_parse.details.title = "")
              => last_parse.saved.title = last_parse.title

-----------------------------------------------------------------------------
(* Properties of the background scrapes side by side, checked under        *)
(* SpecRace.                                                               *)

\* a background thread that has not reached its end
Running(n) == threads[n].pc # "end"

\* C25: at any time at most one background scrape thread is running for a
\* venue id: a start request for a venue whose scrape has not ended launches
\* no second thread.
C25_SingleFlight ==
    \A m, n \in DOMAIN threads :
        (/\ threads[m].venue_id = threads[n].venue_id
         /\ Running(m) /\ Running(n)) => m = n

\* C26: in every reachable state, whatever the interleaving of the background
\* scrapes of a venue, no two Concert rows of the same venue have the same
\* (title, date).
C26_ConcertUnique ==
    \A i, j \in DOMAIN concerts :
        (/\ concerts[i].venue_id = concerts[j].venue_id
         /\ concerts[i].title = concerts[j].title
         /\ concerts[i].date = concerts[j].date) => i = j

-----------------------------------------------------------------------------
(* Properties of the skipping of similar blocks, checked under SpecText.   *)

\* the text of a block is a substring of, or contains, one of the texts
Similar(content, texts) == \E p \in texts : In(p, content) \/ In(content, p)

\* The blocks of concert_elements[:15] a loop accepts when only the blocks
\* accepted earlier suppress a block: their positions, `accepted` being the
\* texts of the blocks accepted so far.
RECURSIVE AcceptedBlocks(_, _, _)
AcceptedBlocks(elements, k, accepted) ==
    IF k > Len(elements) THEN <<>>
    ELSE Bind(strip(get_text(elements[k])), LAMBDA content :
         IF \/ SkipsElement(elements[k], content, {})
            \/ Similar(content, accepted)
            \/ RejectsTitle(TitleOf(elements[k]))
         THEN AcceptedBlocks(elements, k + 1, accepted)
         ELSE <<k>> \o AcceptedBlocks(elements, k + 1, accepted \cup {content}))

\* the blocks the loop over the elements of the page of venue 1 goes through
ElementsOf(name) ==
    Bind(ConcertElements(TextPageOf(name)), LAMBDA els :
        SubSeq(els, 1, MinNat(Len(els), 15)))

\* C27: within one generic scrape a block is suppressed only by the text of
\* a block accepted earlier: a block that was examined and rejected for its
\* title does not suppress later blocks, so that a clean run whose page has
\* acceptable blocks saves exactly those, one call for each.
C27_RejectedDoesNotSuppress ==
    (last_scrape.called /\ last_scrape.op = "scrape_text" /\ last_scrape.clean)
        => Bind(ElementsOf(last_scrape.site), LAMBDA els :
           Bind(AcceptedBlocks(els, 1, {}), LAMBDA acc :
               acc # <<>> =>
                   last_scrape.calls =
                       [i \in DOMAIN acc |-> ElementCall(1, els[acc[i]], now)]))

-----------------------------------------------------------------------------
(* Properties of the progress entries of single background scrapes,        *)
(* checked under SpecProgress.                                             *)

\* the scrape of venue id has been started and its entry is not final
Pending(id) ==
    /\ id \in DOMAIN scraping_progress
    /\ scraping_progress[id].status \in {"starting", "running"}

Terminal(id) ==
    /\ id \in DOMAIN scraping_progress
    /\ scraping_progress[id].status \in {"completed", "error"}

\* C28: after a start request for a venue, every fetch returning or timing
\* out, the venue's progress status eventually becomes completed or error:
\* it does not stay at starting or running forever, whether the venue is
\* missing, the base fetch failed, the strategy raised or returned.
C28_ReachesTerminal ==
    \A id \in 1..NoSuchVenue : Pending(id) ~> Terminal(id)

\* a background scrape has ended and its entry is final
C28_Witness ==
    \E n \in DOMAIN threads :
        /\ threads[n].pc = "end"
        /\ Terminal(threads[n].venue_id)
        /\ scraping_progress[threads[n].venue_id].error = "Scraping failed"

\* the n-th thread is the only one started for its venue id
Alone(ths, n) ==
    \A m \in DOMAIN ths : ths[m].venue_id = ths[n].venue_id => m = n

C30_CounterBounds ==
    \A id \in DOMAIN scraping_progress :
        /\ 0 <= scraping_progress[id].current
        /\ scraping_progress[id].current <= scraping_progress[id].total

=============================================================================
